---------------------------- MODULE Spec2Model ----------------------------
(***************************************************************************)
(* Skill Patch Engine of nanoclaw: replaySkills (skills-engine/replay.ts),  *)
(* uninstallSkill (skills-engine/uninstall.ts) and the resolution cache     *)
(* (skills-engine/resolution-cache.ts), over an installation made of a      *)
(* working tree, a Base Snapshot, a State document, the skill packages, the *)
(* resolution directories and the merge tool's replay memory (rr-cache).    *)
(*                                                                         *)
(* A file's content is a pair of lines.  A plain line is <<v>>; a line      *)
(* left in conflict by the three-way merge is <<ours, base, theirs>>.       *)
(* A file that does not exist is Absent.                                    *)
(*                                                                         *)
(* The targets of the structured operations (package.json, .env.example,   *)
(* docker-compose.yml) are sets of entries; the merge rules of              *)
(* structured.js add the entries they are given and are taken to complete.  *)
(*                                                                         *)
(* Not modelled: path remapping (path-remap.js), manifest file_ops and      *)
(* custom_modifications of the State document (none of the skills below     *)
(* declares any).                                                           *)
(***************************************************************************)
EXTENDS Integers, Sequences, FiniteSets, TLC

\* ------------------------------------------------------------- bounds
\* operations (replaySkills / uninstallSkill calls) started in one run
MaxOps == 2
\* edits made from outside the engine (skill files, working tree, cache)
MaxEdits == 1
\* uninstallSkill calls in a run that only uninstalls
MaxUninstalls == 3
\* uninstallSkill calls in a run that meets every failure
MaxUninstallsAll == 2
\* values a plain line of a file given to the three-way merge takes
MaxLineValue == 1
\* calls of the resolution cache's functions in a run that only makes those
MaxCacheCalls == 2
\* length of the skill lists given to the resolution cache's functions
MaxKeyLen == 2
MaxInfos == 3

\* ----------------------------------------------------------- universe
Procs == {1, 2}
Skills == {"A", "B", "C"}
Paths == {"cfg", "ext"}

Absent == <<>>
None == <<"none">>

Txt(a, b) == <<<<a>>, <<b>>>>

IsPlainLine(l) == Len(l) = 1
HasMarkers(c) == c # Absent /\ \E i \in 1..Len(c) : ~IsPlainLine(c[i])

\* The skill packages' manifests: A adds ext and modifies cfg, B modifies
\* cfg, C modifies ext (a file that exists only as A's addition).
ManifestAdds(s) == IF s = "A" THEN <<"ext">> ELSE <<>>
ManifestModifies(s) ==
  IF s = "C" THEN <<"ext">> ELSE <<"cfg">>

\* manifest.structured of the skill packages: A adds an environment
\* variable, B a package dependency, C a compose service.
ManifestStructured(s) ==
  [npm_dependencies |-> IF s = "B" THEN {"dep_b"} ELSE {},
   env_additions |-> IF s = "A" THEN {"ENV_A"} ELSE {},
   docker_compose_services |-> IF s = "C" THEN {"svc_c"} ELSE {}]

\* structured_outcomes.test of an Applied Skill Record
HasTest(s) == s \in {"A", "C"}

Range(f) == {f[i] : i \in DOMAIN f}

\* ------------------------------------------------------ pure functions

\* SHA-256 of a file's content: an injection, collisions are not modelled.
computeFileHash(c) == <<"sha256", c>>

\* diff3 on one line: unchanged on both sides, changed on one side, or
\* changed differently on both sides (a conflict region showing both
\* versions and the base).
MergeLine(ours, base, theirs) ==
  IF ours = theirs THEN ours
  ELSE IF ours = base THEN theirs
  ELSE IF theirs = base THEN ours
  ELSE <<ours[1], base[1], theirs[1]>>

\* The merge called unclean whenever its output shows a conflict region,
\* one that was in the inputs already included.
mergeFileCleanByMarkers(cur, base, skill) ==
  LET out == [i \in 1..Len(cur) |-> MergeLine(cur[i], base[i], skill[i])]
  IN [content |-> out, clean |-> ~HasMarkers(out)]

\* mergeFile(current, base, skill): the merged content written to current;
\* clean iff the merge has left no line in conflict.
mergeFile(cur, base, skill) ==
  LET out == [i \in 1..Len(cur) |-> MergeLine(cur[i], base[i], skill[i])]
  IN [content |-> out,
      clean |-> \A i \in 1..Len(cur) :
                  cur[i] = skill[i] \/ cur[i] = base[i] \/ skill[i] = base[i]]

\* The merge tool's token for a conflict: derived from the conflict-marked
\* content (the preimage).
RerereId(preimage) == <<"rr", preimage>>

\* The order Array.prototype.sort puts the names in (by code unit).
NameLess(x, y) == (x = "A" /\ y # "A") \/ (x = "B" /\ y = "C")

RECURSIVE InsertName(_, _)
InsertName(x, sorted) ==
  IF sorted = <<>> THEN <<x>>
  ELSE IF NameLess(Head(sorted), x)
  THEN <<Head(sorted)>> \o InsertName(x, Tail(sorted))
  ELSE <<x>> \o sorted

\* [...skills].sort(): a copy of the list, every name at its place.
RECURSIVE SortNames(_)
SortNames(names) ==
  IF names = <<>> THEN <<>>
  ELSE InsertName(Head(names), SortNames(Tail(names)))

\* The paths of a set in the order a directory listing gives them.
SortPaths(paths) ==
  (IF "cfg" \in paths THEN <<"cfg">> ELSE <<>>) \o
  (IF "ext" \in paths THEN <<"ext">> ELSE <<>>)

\* The key with the names left in the order given.
resolutionKeyUnsorted(skills) == skills

\* resolutionKey: the sorted names joined with "+" (a name holds no "+",
\* so the joined string is the list of its parts).
resolutionKey(skills) == SortNames(skills)


\* -------------------------------------------------------------- state
VARIABLES
  tree,        \* working tree: path -> content or Absent
  base,        \* Base Snapshot (.nanoclaw/base): path -> content or Absent
  stateDoc,    \* State document (.nanoclaw/state.yaml)
  pkg,         \* skill packages under .gemini/skills
  resolutions, \* resolution directories, shipped and local root
  rrCache,     \* the merge tool's replay memory (.git/rr-cache)
  lock,        \* .nanoclaw/lock: 0 when free, else the holder
  backup,      \* .nanoclaw/backup: the files snapshotted, or empty
  loc,         \* per process: position and locals of the running call
  hist,        \* per process: what the running call has observed
  lastConflict,\* per path: the inputs of the last unresolved conflict
  prevReplay,  \* the last direct replaySkills call that returned
  used,        \* calls started and outside edits made so far
  targets      \* package.json, .env.example and docker-compose.yml

vars == <<tree, base, stateDoc, pkg, resolutions, rrCache, lock, backup,
          loc, hist, lastConflict, prevReplay, used, targets>>

\* ------------------------------------------------------- small helpers
EmptyFn == [x \in {} |-> None]

Put(f, k, v) == [x \in (DOMAIN f) \cup {k} |-> IF x = k THEN v ELSE f[x]]

Names(applied) == [i \in DOMAIN applied |-> applied[i].name]

\* a value that is not there yet (a result not returned, a state not read)
Nothing == [kind |-> "nothing"]

\* The lists a caller passes to replaySkills: every duplicate-free list of
\* up to MaxList skills, and the whole stack in application order.
MaxList == 2
ReplayLists ==
  {q \in UNION {[1..n -> Skills] : n \in 0..MaxList} :
     \A i, j \in DOMAIN q : i # j => q[i] # q[j]}
  \cup {<<"A", "B", "C">>}

\* ------------------------------------------------------- initial state
BaseCfg == Txt(0, 0)
AddExtOfA == Txt(1, 1)
ModCfgOfA == Txt(1, 0)
ModCfgOfBConflicting == Txt(2, 0)
ModCfgOfBClean == Txt(0, 2)
ModExtOfC == Txt(1, 3)
ManualResolution == Txt(4, 0)

InitStacks == {<<>>, <<"A">>, <<"A", "B">>, <<"A", "B", "C">>}

InitPkg(bClean) ==
  [s \in Skills |->
     [present |-> TRUE,
      add |-> [p \in Paths |-> IF s = "A" /\ p = "ext" THEN AddExtOfA ELSE Absent],
      modify |-> [p \in Paths |->
         IF s = "A" /\ p = "cfg" THEN ModCfgOfA
         ELSE IF s = "B" /\ p = "cfg"
              THEN (IF bClean THEN ModCfgOfBClean ELSE ModCfgOfBConflicting)
         ELSE IF s = "C" /\ p = "ext" THEN ModExtOfC
         ELSE Absent]]]

\* The Base Snapshot as taken at initialisation: cfg is part of the clean
\* core, ext is not.
OriginalBase == [p \in Paths |-> IF p = "cfg" THEN BaseCfg ELSE Absent]

\* The working tree of an installation on which `stack` was applied in order
\* (a conflict between A and B resolved by hand).
InitTree(stack, bClean) ==
  [p \in Paths |->
     IF p = "cfg"
     THEN IF Len(stack) = 0 THEN BaseCfg
          ELSE IF Len(stack) = 1 THEN ModCfgOfA
          ELSE IF bClean THEN Txt(1, 2) ELSE ManualResolution
     ELSE IF Len(stack) = 0 THEN Absent
          ELSE IF Len(stack) = 3 THEN ModExtOfC ELSE AddExtOfA]

\* The target files of an installation on which `stack` was applied.
InitTargets(stack) ==
  [packageJson |->
     UNION {ManifestStructured(s).npm_dependencies : s \in Range(stack)},
   envExample |->
     UNION {ManifestStructured(s).env_additions : s \in Range(stack)},
   dockerCompose |->
     UNION {ManifestStructured(s).docker_compose_services : s \in Range(stack)}]

ManifestPaths(s) == Range(ManifestAdds(s)) \cup Range(ManifestModifies(s))

InitRecord(s, t, patched) ==
  [name |-> s,
   file_hashes |-> [p \in ManifestPaths(s) |-> computeFileHash(t[p])],
   custom_patch |-> (patched /\ s = "B")]

IdleLoc ==
  [pc |-> "idle", op |-> "none",
   state |-> Nothing, skillName |-> "A",
   skills |-> <<>>, skillDirs |-> {}, idx |-> 1,
   perSkill |-> EmptyFn, allMergeConflicts |-> <<>>,
   allNpmDeps |-> {}, allEnvAdditions |-> {}, allDockerServices |-> {},
   hasNpmDeps |-> FALSE,
   replayResult |-> Nothing, result |-> Nothing]

IdleHist ==
  [call |-> Nothing, attempted |-> <<>>, conflictLog |-> {}, seeded |-> {},
   before |-> Nothing, start |-> Nothing, writing |-> "none",
   tests |-> Nothing, confirmed |-> FALSE, install |-> "none",
   phases |-> <<>>, preload |-> Nothing]

Init ==
  \E stack \in InitStacks, bClean \in BOOLEAN, patched \in BOOLEAN :
    /\ (patched => Len(stack) >= 2)
    /\ tree = InitTree(stack, bClean)
    /\ base = OriginalBase
    /\ stateDoc =
         [applied_skills |->
            [i \in DOMAIN stack |->
               InitRecord(stack[i], InitTree(stack, bClean), patched)],
          rebased_at |-> FALSE]
    /\ pkg = InitPkg(bClean)
    /\ resolutions = [shipped |-> EmptyFn, local |-> EmptyFn]
    /\ rrCache = EmptyFn
    /\ lock = 0
    /\ backup = EmptyFn
    /\ loc = [p \in Procs |-> IdleLoc]
    /\ hist = [p \in Procs |-> IdleHist]
    /\ lastConflict = [p \in Paths |-> Nothing]
    /\ prevReplay = Nothing
    /\ used = [ops |-> 0, edits |-> 0]
    /\ targets = InitTargets(stack)


\* ------------------------------------------------- resolution cache
\* The two roots searched in the other order.
findResolutionDirLocalFirst(skills, res) ==
  LET key == resolutionKey(skills)
  IN IF key \in DOMAIN res.local
     THEN [found |-> TRUE, root |-> "local", key |-> key, dir |-> res.local[key]]
     ELSE IF key \in DOMAIN res.shipped
     THEN [found |-> TRUE, root |-> "shipped", key |-> key, dir |-> res.shipped[key]]
     ELSE [found |-> FALSE, root |-> "none", key |-> key, dir |-> Nothing]

\* findResolutionDir: the shipped directory for the key if there is one,
\* else the local one, else none.
findResolutionDir(skills, res) ==
  LET key == resolutionKey(skills)
  IN IF key \in DOMAIN res.shipped
     THEN [found |-> TRUE, root |-> "shipped", key |-> key, dir |-> res.shipped[key]]
     ELSE IF key \in DOMAIN res.local
     THEN [found |-> TRUE, root |-> "local", key |-> key, dir |-> res.local[key]]
     ELSE [found |-> FALSE, root |-> "none", key |-> key, dir |-> Nothing]

\* The verification with the comparison of the current file left out.
HashesMatchWithoutCurrent(expected, relPath, t, b, skillDir) ==
  /\ b[relPath] # Absent
  /\ t[relPath] # Absent
  /\ skillDir.modify[relPath] # Absent
  /\ computeFileHash(b[relPath]) = expected.base
  /\ computeFileHash(skillDir.modify[relPath]) = expected.skill

\* The hash verification of one preimage/resolution pair against the
\* inputs as they are when loadResolutions runs.
HashesMatch(expected, relPath, t, b, skillDir) ==
  /\ b[relPath] # Absent
  /\ t[relPath] # Absent
  /\ skillDir.modify[relPath] # Absent
  /\ computeFileHash(b[relPath]) = expected.base
  /\ computeFileHash(t[relPath]) = expected.current
  /\ computeFileHash(skillDir.modify[relPath]) = expected.skill

\* Whether loadResolutions seeds the pair of relPath of directory dir.
PairLoads(dir, relPath, t, b, skillDir) ==
  /\ relPath \in DOMAIN dir.file_hashes
  /\ HashesMatch(dir.file_hashes[relPath], relPath, t, b, skillDir)
  /\ dir.pairs[relPath].hash # None

\* The pairs of a directory in the order findPreimagePairs lists them.
PairOrder(dir) == SortPaths(DOMAIN dir.pairs)

\* The loop left at the first pair that is skipped.
RECURSIVE SeedPairsUntilSkip(_, _, _, _, _, _)
SeedPairsUntilSkip(todo, dir, t, b, skillDir, acc) ==
  IF todo = <<>> THEN acc
  ELSE LET relPath == Head(todo)
           pair == dir.pairs[relPath]
       IN IF PairLoads(dir, relPath, t, b, skillDir)
          THEN SeedPairsUntilSkip(Tail(todo), dir, t, b, skillDir,
                 [rr |-> Put(acc.rr, pair.hash,
                             [preimage |-> pair.preimage,
                              postimage |-> pair.resolution]),
                  loadedAny |-> TRUE])
          ELSE acc

\* resolution-cache.ts lines 88-155: the loop over the pairs; a pair that
\* is not verified is passed over, a verified one is written to rr-cache.
RECURSIVE SeedPairs(_, _, _, _, _, _)
SeedPairs(todo, dir, t, b, skillDir, acc) ==
  IF todo = <<>> THEN acc
  ELSE LET relPath == Head(todo)
           pair == dir.pairs[relPath]
           next == IF PairLoads(dir, relPath, t, b, skillDir)
                   THEN [rr |-> Put(acc.rr, pair.hash,
                                    [preimage |-> pair.preimage,
                                     postimage |-> pair.resolution]),
                         loadedAny |-> TRUE]
                   ELSE acc
       IN SeedPairs(Tail(todo), dir, t, b, skillDir, next)

\* loadResolutions(skills, projectRoot, skillDir): the replay memory after
\* the call and the value returned.
loadResolutions(skills, res, t, b, skillDir, rr) ==
  LET f == findResolutionDir(skills, res)
  IN IF ~f.found \/ f.dir.meta # "complete" \/ DOMAIN f.dir.pairs = {}
     THEN [rr |-> rr, loadedAny |-> FALSE]
     ELSE SeedPairs(PairOrder(f.dir), f.dir, t, b, skillDir,
                    [rr |-> rr, loadedAny |-> FALSE])

\* findRerereHash: the name of the rr-cache entry whose preimage is the
\* given content.
findRerereHash(rr, preimageContent) ==
  IF \E h \in DOMAIN rr : rr[h].preimage = preimageContent
  THEN CHOOSE h \in DOMAIN rr : rr[h].preimage = preimageContent
  ELSE None

\* resolution-cache.ts lines 212-215 and 228: the hashes of the files of
\* the call, then the entries of meta.file_hashes spread over them.
savedFileHashes(file, meta) ==
  [x \in {file.relPath} \cup DOMAIN meta.file_hashes |->
     IF x \in DOMAIN meta.file_hashes THEN meta.file_hashes[x]
     ELSE file.inputHashes]

\* saveResolution for one file and the meta argument given: the local root
\* after the call.
saveResolution(skills, file, meta, res, rr) ==
  LET key == resolutionKey(skills)
      old == IF key \in DOMAIN res.local THEN res.local[key]
             ELSE [pairs |-> EmptyFn, file_hashes |-> EmptyFn, meta |-> "complete"]
      oldHash == IF file.relPath \in DOMAIN old.pairs
                 THEN old.pairs[file.relPath].hash ELSE None
      found == findRerereHash(rr, file.preimage)
      pair == [preimage |-> file.preimage, resolution |-> file.resolution,
               hash |-> IF found # None THEN found ELSE oldHash]
  IN [res EXCEPT !.local =
        Put(res.local, key,
            [pairs |-> Put(old.pairs, file.relPath, pair),
             file_hashes |-> savedFileHashes(file, meta),
             meta |-> "complete", skills |-> SortNames(skills)])]


\* ------------------------------------------------------------- replay
\* Step 1 of replaySkills: the union of adds and modifies of the list.
allTouchedFiles(skills) == UNION {ManifestPaths(skills[i]) : i \in DOMAIN skills}

\* A reset that removes the files the base does not hold and leaves the
\* others as they are.
ResetOnlyRemoves(touched, t, b) ==
  [p \in Paths |-> IF p \in touched /\ b[p] = Absent THEN Absent ELSE t[p]]

\* A reset that restores the files the base holds and leaves the others
\* as they are.
ResetOnlyRestores(touched, t, b) ==
  [p \in Paths |-> IF p \in touched /\ b[p] # Absent THEN b[p] ELSE t[p]]

\* A reset that leaves the working tree as it is.
ResetSkipped(touched, t, b) == t

\* Step 2: every touched file is restored from base, or removed when base
\* does not hold it.
ResetToBase(touched, t, b) ==
  [p \in Paths |-> IF p \in touched THEN b[p] ELSE t[p]]

\* No add file copied.
CopyAddsSkipped(adds, skillDir, t) == t

\* Copy add/ files of one skill.
RECURSIVE CopyAdds(_, _, _)
CopyAdds(adds, skillDir, t) ==
  IF adds = <<>> THEN t
  ELSE LET relPath == Head(adds)
           addDirExists == \E p \in Paths : skillDir.add[p] # Absent
           next == IF addDirExists /\ skillDir.add[relPath] # Absent
                   THEN [t EXCEPT ![relPath] = skillDir.add[relPath]]
                   ELSE t
       IN CopyAdds(Tail(adds), skillDir, next)

\* runRerere on a conflicted file: the resolution the replay memory holds
\* for the conflict's token, if any.
runRerere(rr, conflicted) ==
  LET id == RerereId(conflicted)
  IN IF id \in DOMAIN rr /\ rr[id].postimage # Absent
     THEN [autoResolved |-> TRUE, content |-> rr[id].postimage]
     ELSE [autoResolved |-> FALSE, content |-> conflicted]

\* The merge tool records the preimage of a conflict it has no entry for.
recordPreimage(rr, conflicted) ==
  IF RerereId(conflicted) \in DOMAIN rr THEN rr
  ELSE Put(rr, RerereId(conflicted),
           [preimage |-> conflicted, postimage |-> Absent])

\* A conflict that is not noted.
ConflictDropped(skillConflicts, relPath) == skillConflicts

\* replay.ts line 232: the path of a file left in conflict is noted.
pushConflict(skillConflicts, relPath) == Append(skillConflicts, relPath)

\* The three-way merge of one modifies entry of a skill. acc carries the
\* working tree, the base directory, the replay memory, skillConflicts and
\* the record of the conflicts met (inputs, and whether auto-resolved).
MergeOne(relPath, skillDir, acc) ==
  LET skillContent == skillDir.modify[relPath]
      ours == acc.tree[relPath]
  IN IF skillContent = Absent
     THEN [acc EXCEPT !.skillConflicts = Append(@, relPath)]
     ELSE IF ours = Absent
     THEN [acc EXCEPT !.tree[relPath] = skillContent]
     ELSE
       LET b == IF acc.base[relPath] = Absent
                THEN [acc.base EXCEPT ![relPath] = ours]
                ELSE acc.base
           result == mergeFile(ours, b[relPath], skillContent)
           rerere == runRerere(acc.rr, result.content)
           entry == [path |-> relPath,
                     inputs |-> [base |-> computeFileHash(b[relPath]),
                                 current |-> computeFileHash(ours),
                                 skill |-> computeFileHash(skillContent)],
                     autoResolved |-> rerere.autoResolved]
       IN IF result.clean
          THEN [acc EXCEPT !.tree[relPath] = result.content, !.base = b]
          ELSE IF rerere.autoResolved
          THEN [acc EXCEPT !.tree[relPath] = rerere.content, !.base = b,
                           !.log = @ \cup {entry}]
          ELSE [acc EXCEPT !.tree[relPath] = result.content, !.base = b,
                           !.rr = recordPreimage(acc.rr, result.content),
                           !.skillConflicts = pushConflict(@, relPath),
                           !.log = @ \cup {entry}]

RECURSIVE MergeModifies(_, _, _)
MergeModifies(modifies, skillDir, acc) ==
  IF modifies = <<>> THEN acc
  ELSE MergeModifies(Tail(modifies), skillDir,
                     MergeOne(Head(modifies), skillDir, acc))

\* One iteration of the replay loop: the skill's adds, then its modifies.
ApplySkill(s, skillDir, t, b, rr) ==
  MergeModifies(ManifestModifies(s), skillDir,
                [tree |-> CopyAdds(ManifestAdds(s), skillDir, t),
                 base |-> b, rr |-> rr, skillConflicts |-> <<>>, log |-> {}])

\* Every result reports success.
ReplayResultAlwaysSuccess(success, perSkill, conflicts, error) ==
  [kind |-> "replay", success |-> TRUE, perSkill |-> perSkill,
   mergeConflicts |-> conflicts, error |-> error, names |-> "none"]

\* replay.ts lines 90-94, 146-150, 268-272, 276-282, 309: the results
\* replaySkills returns; mergeConflicts is <<>> where the result has none.
ReplayResult(success, perSkill, conflicts, error) ==
  [kind |-> "replay", success |-> success, perSkill |-> perSkill,
   mergeConflicts |-> conflicts, error |-> error, names |-> "none"]

\* The record of who writes the working tree, kept in the step of process
\* p that leads to the tree of the next state: an operation has "wrote"
\* once it changed the tree, is "intruded" when another process changes the
\* tree before it returned, and has "interleaved" when it changes the tree
\* again after that.
Logged(p, h) ==
  [q \in Procs |->
     [h[q] EXCEPT !.writing =
        IF tree' = tree THEN @
        ELSE IF q = p
        THEN (IF @ \in {"intruded", "interleaved"} THEN "interleaved" ELSE "wrote")
        ELSE (IF @ = "wrote" /\ loc[q].pc # "idle" THEN "intruded" ELSE @)]]

\* What a process does when its replaySkills call returns: a direct call
\* hands the result to the caller, the call made by uninstallSkill goes on
\* with uninstall step 9.
Returned(p, l, res) ==
  IF l.op = "replay"
  THEN [IdleLoc EXCEPT !.result = res]
  ELSE [l EXCEPT !.pc = "u_check", !.replayResult = res]


\* Locals of a replaySkills call that starts.
EnterReplay(l, skills, skillDirs) ==
  [l EXCEPT !.pc = "r_collect", !.skills = skills, !.skillDirs = skillDirs,
            !.idx = 1, !.perSkill = EmptyFn, !.allMergeConflicts = <<>>,
            !.allNpmDeps = {}, !.allEnvAdditions = {},
            !.allDockerServices = {}, !.hasNpmDeps = FALSE,
            !.replayResult = Nothing]

Summary(r) == [kind |-> r.kind, skills |-> r.skills, baseAtStart |-> r.baseAtStart,
               result |-> r.result, tree |-> r.tree, drift |-> r.drift]

\* The return of process p's replaySkills call with result res, the working
\* tree being t: loc and prevReplay of the next state.
Return(p, l, res, t) ==
  /\ loc' = [loc EXCEPT ![p] = Returned(p, l, res)]
  /\ prevReplay' =
       IF l.op = "replay"
       THEN [kind |-> "replay", skills |-> l.skills,
             baseAtStart |-> hist[p].start.base, result |-> res, tree |-> t,
             drift |-> {},
             prior |-> IF hist[p].start.prev.kind = "replay"
                       THEN Summary(hist[p].start.prev) ELSE Nothing]
       ELSE Nothing

\* A caller invokes replaySkills directly, with the directories of the
\* packages that exist.
ReplayStart(p, skills) ==
  /\ loc[p].pc = "idle"
  /\ used' = [used EXCEPT !.ops = @ + 1]
  /\ loc' = [loc EXCEPT ![p] =
       [EnterReplay(@, skills, {s \in Range(skills) : pkg[s].present})
          EXCEPT !.op = "replay", !.result = Nothing]]
  /\ hist' = [hist EXCEPT ![p] =
       [IdleHist EXCEPT !.call = [op |-> "replay", skills |-> skills],
                        !.before = [tree |-> tree, base |-> base, stateDoc |-> stateDoc,
                                    targets |-> targets],
                        !.start = [base |-> base, prev |-> prevReplay]]]
  /\ UNCHANGED <<targets, tree, base, stateDoc, pkg, resolutions, rrCache, lock, backup,
                 lastConflict, prevReplay>>

\* Every skill taken to have a directory.
missingSkillDirsIgnored(skills, skillDirs) == {}

\* replay.ts lines 83-85: the places of the list whose skill has no entry
\* in skillDirs.
missingSkillDirs(skills, skillDirs) ==
  {i \in DOMAIN skills : skills[i] \notin skillDirs}

\* replay.ts steps 1 and 2: collect the touched files (returning at the
\* first skill that has no directory), then reset them to base.
ReplayCollectReset(p) ==
  LET l == loc[p]
      missing == missingSkillDirs(l.skills, l.skillDirs)
      first == CHOOSE i \in missing : \A j \in missing : i <= j
  IN /\ l.pc = "r_collect"
     /\ IF missing # {}
        THEN /\ Return(p, l,
                  [ReplayResult(FALSE, Put(l.perSkill, l.skills[first], FALSE),
                                <<>>, "missing_dir")
                     EXCEPT !.names = l.skills[first]], tree)
             /\ UNCHANGED tree
        ELSE /\ tree' = ResetToBase(allTouchedFiles(l.skills), tree, base)
             /\ loc' = [loc EXCEPT ![p].pc = "r_preload"]
             /\ UNCHANGED prevReplay
     /\ hist' = Logged(p, [hist EXCEPT ![p].phases =
          @ \o (IF missing # {} THEN <<"collect">> ELSE <<"collect", "reset">>)])
     /\ UNCHANGED <<targets, base, stateDoc, pkg, resolutions, rrCache, lock, backup,
                    lastConflict, used>>

\* The directory of the first skill of the list handed to the preload.
firstSkillDir(skills) ==
  IF skills = <<>> THEN "none" ELSE skills[1]

\* replay.ts lines 120-123: the directory of the last skill of the list,
\* none for the empty list.
lastSkillDir(skills) ==
  IF skills = <<>> THEN "none" ELSE skills[Len(skills)]

\* replay.ts step 3: loadResolutions for the whole list with the last
\* skill's directory.
ReplayPreload(p) ==
  LET l == loc[p]
      dir == lastSkillDir(l.skills)
      rr == IF dir = "none" THEN rrCache
            ELSE loadResolutions(l.skills, resolutions, tree, base,
                                 pkg[dir], rrCache).rr
  IN /\ l.pc = "r_preload"
     /\ rrCache' = rr
     /\ loc' = [loc EXCEPT ![p].pc = "r_apply"]
     /\ hist' = [hist EXCEPT
          ![p].seeded =
            {h \in DOMAIN rr : h \notin DOMAIN rrCache \/ rr[h] # rrCache[h]},
          ![p].phases = Append(@, "preload"),
          ![p].preload =
            [skills |-> l.skills, skillDir |-> dir,
             reset |-> \A x \in allTouchedFiles(l.skills) : tree[x] = base[x]]]
     /\ UNCHANGED <<targets, tree, base, stateDoc, pkg, resolutions, lock, backup,
                    lastConflict, prevReplay, used>>

\* The triple the resolution directory of the list records for a path.
RecordedFor(skills, relPath) ==
  LET f == findResolutionDir(skills, resolutions)
  IN IF f.found /\ relPath \in DOMAIN f.dir.file_hashes
     THEN f.dir.file_hashes[relPath] ELSE Nothing

\* The loop without its break: it goes on after a skill left conflicts.
LoopContinuesAfterConflict(l) ==
  l.idx <= Len(l.skills)

\* The loop of replay.ts line 133 goes on to the skill at l.idx unless the
\* list is exhausted or the skill before it left conflicts (the break of
\* line 243).
LoopContinues(l) ==
  /\ l.idx <= Len(l.skills)
  /\ l.allMergeConflicts = <<>>

\* replay.ts lines 248-261: the structured operations of a skill that left
\* no conflict join the batch (the break of line 246 comes first).
collectStructured(l, structured, failed) ==
  IF failed THEN l
  ELSE [l EXCEPT
          !.allNpmDeps = @ \cup structured.npm_dependencies,
          !.hasNpmDeps = @ \/ structured.npm_dependencies # {},
          !.allEnvAdditions = @ \cup structured.env_additions,
          !.allDockerServices = @ \cup structured.docker_compose_services]

\* One iteration of the loop of replay.ts lines 133-273; throws: an error
\* is raised in the body (caught at line 262).
ReplayApply(p, throws) ==
  LET l == loc[p]
      s == l.skills[l.idx]
      acc == ApplySkill(s, pkg[s], tree, base, rrCache)
      failed == acc.skillConflicts # <<>>
  IN /\ l.pc = "r_apply"
     /\ LoopContinues(l)
     /\ IF throws
        THEN /\ Return(p, l,
                  ReplayResult(FALSE, Put(l.perSkill, s, FALSE), <<>>, "exception"),
                  tree)
             /\ UNCHANGED <<tree, base, rrCache, lastConflict>>
        ELSE /\ tree' = acc.tree
             /\ base' = acc.base
             /\ rrCache' = acc.rr
             /\ lastConflict' =
                  [x \in Paths |->
                     IF \E e \in acc.log : e.path = x /\ ~e.autoResolved
                     THEN (CHOOSE e \in acc.log : e.path = x /\ ~e.autoResolved).inputs
                     ELSE lastConflict[x]]
             /\ loc' = [loc EXCEPT ![p] =
                  collectStructured(
                    [@ EXCEPT !.perSkill = Put(@, s, ~failed),
                              !.allMergeConflicts = @ \o acc.skillConflicts,
                              !.idx = @ + 1],
                    ManifestStructured(s), failed)]
             /\ UNCHANGED prevReplay
     /\ hist' = Logged(p, [hist EXCEPT
          ![p].attempted = Append(@, s),
          ![p].phases = Append(@, "apply"),
          ![p].conflictLog = IF throws THEN @ ELSE @ \cup
             {[path |-> e.path, inputs |-> e.inputs,
               autoResolved |-> e.autoResolved,
               recorded |-> RecordedFor(l.skills, e.path)] : e \in acc.log}])
     /\ UNCHANGED <<targets, stateDoc, pkg, resolutions, lock, backup, used>>

\* The batch applied although conflicts were left.
StructuredAppliesAlways(l) == TRUE

\* replay.ts lines 275-283: the return that stands before step 4.
StructuredApplies(l) == l.allMergeConflicts = <<>>

\* replay.ts lines 284-298: mergeNpmDependencies, mergeEnvAdditions and
\* mergeDockerComposeServices, each run when its batch is not empty.
applyStructured(t, l) ==
  [packageJson |-> IF l.hasNpmDeps THEN t.packageJson \cup l.allNpmDeps
                   ELSE t.packageJson,
   envExample |-> t.envExample \cup l.allEnvAdditions,
   dockerCompose |-> t.dockerCompose \cup l.allDockerServices]

\* The failure of the install step reported as the replay's failure.
ResultAfterInstallFatal(perSkill, install) ==
  IF install = "failed"
  THEN ReplayResult(FALSE, perSkill, <<>>, "install_failed")
  ELSE ReplayResult(TRUE, perSkill, <<>>, "none")

\* replay.ts lines 300-309: an error of runNpmInstall is swallowed.
ResultAfterInstall(perSkill, install) ==
  ReplayResult(TRUE, perSkill, <<>>, "none")

\* replay.ts lines 275-309: the result after the loop; installFails: the
\* package manager's install command exits with an error.
ReplayFinish(p, installFails) ==
  LET l == loc[p]
      install == IF ~StructuredApplies(l) \/ ~l.hasNpmDeps THEN "none"
                 ELSE IF installFails THEN "failed" ELSE "ok"
  IN /\ l.pc = "r_apply"
     /\ ~LoopContinues(l)
     /\ Return(p, l,
          IF l.allMergeConflicts # <<>>
          THEN ReplayResult(FALSE, l.perSkill, l.allMergeConflicts, "conflicts")
          ELSE ResultAfterInstall(l.perSkill, install),
          tree)
     /\ targets' = IF StructuredApplies(l) THEN applyStructured(targets, l)
                   ELSE targets
     /\ hist' = [hist EXCEPT
          ![p].install = install,
          ![p].phases = IF StructuredApplies(l) THEN Append(@, "aggregate")
                        ELSE @]
     /\ UNCHANGED <<tree, base, stateDoc, pkg, resolutions, rrCache, lock,
                    backup, lastConflict, used>>


\* ---------------------------------------------------------- uninstall
UninstallResult(success, error, threw) ==
  [kind |-> "uninstall", success |-> success, error |-> error, threw |-> threw,
   names |-> "none"]

IsApplied(state, skillName) ==
  \E i \in DOMAIN state.applied_skills : state.applied_skills[i].name = skillName

Entry(state, skillName) ==
  state.applied_skills[CHOOSE i \in DOMAIN state.applied_skills :
                         state.applied_skills[i].name = skillName]

\* The checks with the applied check moved in front of the rebase check.
PreconditionAppliedFirst(state, skillName) ==
  IF ~IsApplied(state, skillName) THEN "not_applied"
  ELSE IF state.rebased_at THEN "after_rebase"
  ELSE IF Entry(state, skillName).custom_patch THEN "custom_patch_warning"
  ELSE "ok"

\* The checks without the custom patch warning.
PreconditionWithoutWarning(state, skillName) ==
  IF state.rebased_at THEN "after_rebase"
  ELSE IF ~IsApplied(state, skillName) THEN "not_applied"
  ELSE "ok"

\* uninstall.ts lines 16-46: read the State document, then the three
\* precondition checks.
Precondition(state, skillName) ==
  IF state.rebased_at THEN "after_rebase"
  ELSE IF ~IsApplied(state, skillName) THEN "not_applied"
  ELSE IF Entry(state, skillName).custom_patch THEN "custom_patch_warning"
  ELSE "ok"

\* confirmed: whether the caller has confirmed the loss of a custom patch;
\* uninstallSkill(skillName) has no parameter that takes it.
UninstallBegin(p, skillName, confirmed) ==
  LET state == stateDoc
      verdict == Precondition(state, skillName)
  IN /\ loc[p].pc = "idle"
     /\ used' = [used EXCEPT !.ops = @ + 1]
     /\ loc' = [loc EXCEPT ![p] =
          IF verdict = "ok"
          THEN [IdleLoc EXCEPT !.pc = "u_lock", !.op = "uninstall",
                               !.state = state, !.skillName = skillName]
          ELSE [IdleLoc EXCEPT !.result = UninstallResult(FALSE, verdict, FALSE)]]
     /\ hist' = [hist EXCEPT ![p] =
          [IdleHist EXCEPT
             !.call = [op |-> "uninstall", skillName |-> skillName],
             !.confirmed = confirmed,
             !.before = [tree |-> tree, base |-> base, stateDoc |-> stateDoc,
                                    targets |-> targets]]]
     /\ prevReplay' = Nothing
     /\ UNCHANGED <<targets, tree, base, stateDoc, pkg, resolutions, rrCache, lock,
                    backup, lastConflict>>

\* uninstall.ts line 49, acquireLock: taken when free; when another
\* invocation holds it the call fails fast by raising.
UninstallLock(p) ==
  /\ loc[p].pc = "u_lock"
  /\ IF lock = 0
     THEN /\ lock' = p
          /\ loc' = [loc EXCEPT ![p].pc = "u_backup"]
     ELSE /\ lock' = lock
          /\ loc' = [loc EXCEPT ![p] =
               [IdleLoc EXCEPT !.result = UninstallResult(FALSE, "lock_held", TRUE)]]
  /\ UNCHANGED <<targets, tree, base, stateDoc, pkg, resolutions, rrCache, backup,
                 hist, lastConflict, prevReplay, used>>

\* createBackup: a copy of every listed file, or a note of its absence.
createBackup(files, t) == [x \in files |-> t[x]]

\* The working tree left as it is.
restoreBackupSkipped(t, bk) == t

\* restoreBackup: every file of the backup put back as it was.
restoreBackup(t, bk) == [x \in Paths |-> IF x \in DOMAIN bk THEN bk[x] ELSE t[x]]

FilesOf(applied, names) ==
  UNION {DOMAIN applied[i].file_hashes :
           i \in {j \in DOMAIN applied : applied[j].name \in names}}

\* The list with the removed skill left in.
remainingSkillsUnfiltered(state, skillName) ==
  Names(state.applied_skills)

remainingSkills(state, skillName) ==
  Names(SelectSeq(state.applied_skills, LAMBDA r : r.name # skillName))

\* The lock left as it is.
lockKept(lk) == lk

\* uninstall.ts lines 228-230, the finally block: releaseLock().
releaseLock(lk) == 0

\* The end of an uninstallSkill call that failed inside the try block: the
\* backup restored and cleared, the lock released.
FailRestore(p, error, t, bk) ==
  /\ tree' = restoreBackup(t, bk)
  /\ backup' = EmptyFn
  /\ lock' = releaseLock(lock)
  /\ loc' = [loc EXCEPT ![p] =
       [IdleLoc EXCEPT !.result = UninstallResult(FALSE, error, FALSE)]]

\* No package is looked for.
missingPackagesUnchecked(remaining, packages) == {}

\* uninstall.ts lines 78-81: the positions of the remaining skills whose
\* package findSkillDir does not find.
missingPackages(remaining, packages) ==
  {i \in DOMAIN remaining : ~packages[remaining[i]].present}

\* uninstall.ts lines 84-88: the failure that names the first remaining
\* skill without a package.
MissingPackageResult(remaining, missing) ==
  [UninstallResult(FALSE, "missing_package", FALSE) EXCEPT
     !.names = remaining[CHOOSE i \in missing : \A j \in missing : i <= j]]

\* uninstall.ts lines 52-126: backup, remaining list, skill directories,
\* reset of the files only the removed skill owns, call of replaySkills.
UninstallPrepare(p, throws) ==
  LET l == loc[p]
      applied == l.state.applied_skills
      bk == createBackup(FilesOf(applied, Skills), tree)
      remaining == remainingSkills(l.state, l.skillName)
      remainingSkillFiles == FilesOf(applied, Skills \ {l.skillName})
      removedSkillFiles == DOMAIN Entry(l.state, l.skillName).file_hashes
      exclusive == removedSkillFiles \ remainingSkillFiles
  IN /\ l.pc = "u_backup"
     /\ IF throws
        THEN FailRestore(p, "exception", tree, bk)
        ELSE IF missingPackages(remaining, pkg) # {}
        THEN /\ tree' = restoreBackup(tree, bk)
             /\ backup' = EmptyFn
             /\ lock' = releaseLock(lock)
             /\ loc' = [loc EXCEPT ![p] =
                  [IdleLoc EXCEPT !.result =
                     MissingPackageResult(remaining, missingPackages(remaining, pkg))]]
        ELSE /\ backup' = bk
             /\ tree' = [x \in Paths |-> IF x \in exclusive THEN base[x] ELSE tree[x]]
             /\ loc' = [loc EXCEPT ![p] = EnterReplay(@, remaining, Range(remaining))]
             /\ UNCHANGED lock
     /\ hist' = Logged(p, hist)
     /\ UNCHANGED <<targets, base, stateDoc, pkg, resolutions, rrCache,
                    lastConflict, prevReplay, used>>

\* The record removed, the hashes of the remaining records left as they are.
UpdatedStateStaleHashes(state, skillName, t) ==
  [state EXCEPT !.applied_skills =
     SelectSeq(state.applied_skills, LAMBDA r : r.name # skillName)]

\* uninstall.ts lines 192-207: the record removed, the hashes of the
\* remaining records refreshed from the files on disk.
UpdatedState(state, skillName, t) ==
  [state EXCEPT !.applied_skills =
     LET kept == SelectSeq(state.applied_skills, LAMBDA r : r.name # skillName)
     IN [i \in DOMAIN kept |->
           [kept[i] EXCEPT !.file_hashes =
              [x \in {y \in DOMAIN kept[i].file_hashes : t[y] # Absent} |->
                 computeFileHash(t[x])]]]]

UninstallOutcomes ==
  {"ok", "throw_before_write", "throw_clear_backup", "throw_clear_backup_twice"}

\* The outcomes with the one in which a call raises before writeState and
\* restoreBackup (line 221) raises in the catch block.
UninstallOutcomesAll == UninstallOutcomes \cup {"throw_restore_backup"}

\* No test counts as failed.
testFailuresIgnored(replayResults) == {}

\* uninstall.ts lines 178-181: the skills whose test did not pass.
testFailures(replayResults) ==
  {s \in DOMAIN replayResults : ~replayResults[s]}

\* uninstall.ts lines 128-230, after replaySkills returned. replayResults:
\* for each remaining skill that declares a test, whether it passes.
\* outcome: whether a call raises before writeState has written (the tests
\* not failing), or clearBackup (line 212) raises after it did, and then
\* whether the clearBackup of the catch block (line 222) raises as well,
\* which leaves the function as an exception.
UninstallFinish(p, outcome, replayResults) ==
  LET l == loc[p]
      newState == UpdatedState(l.state, l.skillName, tree)
  IN /\ l.pc = "u_check"
     /\ DOMAIN replayResults =
          {s \in Range(remainingSkills(l.state, l.skillName)) : HasTest(s)}
     /\ (outcome # "ok" => testFailures(replayResults) = {})
     /\ IF ~l.replayResult.success
        THEN FailRestore(p, "replay_failed", tree, backup) /\ UNCHANGED stateDoc
        ELSE IF outcome = "throw_restore_backup"
        THEN /\ lock' = releaseLock(lock)
             /\ loc' = [loc EXCEPT ![p] =
                  [IdleLoc EXCEPT !.result = UninstallResult(FALSE, "restore_failed", TRUE)]]
             /\ UNCHANGED <<tree, backup, stateDoc>>
        ELSE IF outcome = "throw_before_write"
        THEN FailRestore(p, "exception", tree, backup) /\ UNCHANGED stateDoc
        ELSE IF testFailures(replayResults) # {}
        THEN FailRestore(p, "tests_failed", tree, backup) /\ UNCHANGED stateDoc
        ELSE IF outcome = "throw_clear_backup"
        THEN FailRestore(p, "exception", tree, backup) /\ stateDoc' = newState
        ELSE IF outcome = "throw_clear_backup_twice"
        THEN /\ tree' = restoreBackup(tree, backup)
             /\ stateDoc' = newState
             /\ lock' = releaseLock(lock)
             /\ loc' = [loc EXCEPT ![p] =
                  [IdleLoc EXCEPT !.result = UninstallResult(FALSE, "exception", TRUE)]]
             /\ UNCHANGED backup
        ELSE /\ stateDoc' = newState
             /\ backup' = EmptyFn
             /\ lock' = releaseLock(lock)
             /\ loc' = [loc EXCEPT ![p] =
                  [IdleLoc EXCEPT !.result = UninstallResult(TRUE, "none", FALSE)]]
             /\ UNCHANGED tree
     /\ hist' = Logged(p, [hist EXCEPT ![p].tests =
          IF l.replayResult.success
             /\ outcome \notin {"throw_before_write", "throw_restore_backup"}
          THEN replayResults ELSE Nothing])
     /\ UNCHANGED <<targets, base, pkg, resolutions, rrCache, lastConflict,
                    prevReplay, used>>


\* -------------------------------------------------- outside the engine
\* The outside world acts between calls, not during one; by then the
\* callers have taken the results of the calls that returned.
AllIdle == \A p \in Procs : loc[p].pc = "idle"

OutsideStep ==
  /\ AllIdle
  /\ used.edits < MaxEdits
  /\ used.ops < MaxOps
  /\ used' = [used EXCEPT !.edits = @ + 1]
  /\ loc' = [p \in Procs |-> IdleLoc]
  /\ hist' = [p \in Procs |-> IdleHist]

Outside ==
  /\ OutsideStep
  /\ prevReplay' = Nothing

EditedTexts == {Txt(2, 0), Txt(0, 2), Absent}

\* A skill package's modify file is edited, or removed from the package.
EditSkillFile(s, c) ==
  LET relPath == ManifestModifies(s)[1]
  IN /\ Outside
     /\ s \in {"B", "C"}
     /\ pkg[s].modify[relPath] # c
     /\ pkg' = [pkg EXCEPT ![s].modify[relPath] = c]
     /\ UNCHANGED <<targets, tree, base, stateDoc, resolutions, rrCache, lock, backup,
                    lastConflict>>

\* A skill package is removed from .gemini/skills.
RemovePackage(s) ==
  /\ Outside
  /\ pkg[s].present
  /\ pkg' = [pkg EXCEPT ![s].present = FALSE]
  /\ UNCHANGED <<targets, tree, base, stateDoc, resolutions, rrCache, lock, backup,
                 lastConflict>>

DriftText == Txt(9, 9)

\* The user edits a file of the working tree.
DriftTree(relPath) ==
  /\ OutsideStep
  /\ tree[relPath] # DriftText
  /\ tree' = [tree EXCEPT ![relPath] = DriftText]
  /\ prevReplay' = IF prevReplay.kind = "replay"
                   THEN [prevReplay EXCEPT !.drift = @ \cup {relPath}]
                   ELSE Nothing
  /\ UNCHANGED <<targets, base, stateDoc, pkg, resolutions, rrCache, lock, backup,
                 lastConflict>>

\* A rebase has been carried out: the State document records rebased_at.
Rebase ==
  /\ Outside
  /\ ~stateDoc.rebased_at
  /\ stateDoc' = [stateDoc EXCEPT !.rebased_at = TRUE]
  /\ UNCHANGED <<targets, tree, base, pkg, resolutions, rrCache, lock, backup,
                 lastConflict>>

SaveLists == {<<"A", "B">>, <<"B", "A">>}

\* The hash triples a caller of saveResolution records for a conflicted
\* file: the inputs of the merge that conflicted, or the files as they are
\* when a replay of the list preloads (working file reset to base).
SaveTriple(skills, relPath, which) ==
  IF which = "merge" THEN lastConflict[relPath]
  ELSE [base |-> computeFileHash(base[relPath]),
        current |-> computeFileHash(base[relPath]),
        skill |-> computeFileHash(pkg[skills[Len(skills)]].modify[relPath])]

\* The conflict left in the working tree is resolved by hand and the
\* resolution saved with saveResolution.
SaveResolution(skills, relPath, which) ==
  /\ Outside
  /\ HasMarkers(tree[relPath])
  /\ lastConflict[relPath] # Nothing
  /\ resolutions' = saveResolution(skills,
        [relPath |-> relPath, preimage |-> tree[relPath],
         resolution |-> ManualResolution,
         inputHashes |-> SaveTriple(skills, relPath, which)],
        [file_hashes |-> EmptyFn], resolutions, rrCache)
  /\ UNCHANGED <<targets, tree, base, stateDoc, pkg, rrCache, lock, backup,
                 lastConflict>>

Environment ==
  \/ \E s \in Skills, c \in EditedTexts : EditSkillFile(s, c)
  \/ \E s \in Skills : RemovePackage(s)
  \/ \E relPath \in Paths : DriftTree(relPath)
  \/ Rebase
  \/ \E skills \in SaveLists, relPath \in Paths, which \in {"merge", "preload"} :
       SaveResolution(skills, relPath, which)

\* ------------------------------------------------------ specifications
Step(p) ==
  \/ used.ops < MaxOps /\ \E skills \in ReplayLists : ReplayStart(p, skills)
  \/ ReplayCollectReset(p)
  \/ ReplayPreload(p)
  \/ \E throws \in BOOLEAN : ReplayApply(p, throws)
  \/ \E installFails \in BOOLEAN : ReplayFinish(p, installFails)
  \/ used.ops < MaxOps /\ \E skillName \in Skills, confirmed \in BOOLEAN :
       UninstallBegin(p, skillName, confirmed)
  \/ UninstallLock(p)
  \/ \E throws \in BOOLEAN : UninstallPrepare(p, throws)
  \/ \E outcome \in UninstallOutcomes :
       \E replayResults \in
            UNION {[T -> BOOLEAN] : T \in SUBSET {s \in Skills : HasTest(s)}} :
         UninstallFinish(p, outcome, replayResults)

\* One invocation at a time.
Next == Step(1) \/ Environment

Spec == Init /\ [][Next]_vars

\* Two processes invoking the engine on the same installation, nothing
\* else acting on it meanwhile.
ConcLists == {skills \in ReplayLists : Len(skills) < MaxList}

StepConc(p) ==
  \/ used.ops < MaxOps /\ \E skills \in ConcLists : ReplayStart(p, skills)
  \/ ReplayCollectReset(p)
  \/ ReplayPreload(p)
  \/ \E throws \in BOOLEAN : ReplayApply(p, throws)
  \/ \E installFails \in BOOLEAN : ReplayFinish(p, installFails)
  \/ used.ops < MaxOps /\ \E skillName \in Skills, confirmed \in BOOLEAN :
       UninstallBegin(p, skillName, confirmed)
  \/ UninstallLock(p)
  \/ \E throws \in BOOLEAN : UninstallPrepare(p, throws)
  \/ \E outcome \in UninstallOutcomes :
       \E replayResults \in
            UNION {[T -> BOOLEAN] : T \in SUBSET {s \in Skills : HasTest(s)}} :
         UninstallFinish(p, outcome, replayResults)

NextConc == \E p \in Procs : StepConc(p)

SpecConc == Init /\ [][NextConc]_vars

\* A sequence of uninstallSkill calls, one at a time, nothing else acting
\* on the installation and no I/O error raised: a call fails only for a
\* precondition, a conflict in the replay or a failed test.
StepUninstall(p) ==
  \/ used.ops < MaxUninstalls /\ \E skillName \in Skills :
       UninstallBegin(p, skillName, FALSE)
  \/ UninstallLock(p)
  \/ UninstallPrepare(p, FALSE)
  \/ ReplayCollectReset(p)
  \/ ReplayPreload(p)
  \/ ReplayApply(p, FALSE)
  \/ \E installFails \in BOOLEAN : ReplayFinish(p, installFails)
  \/ \E replayResults \in
          UNION {[T -> BOOLEAN] : T \in SUBSET {s \in Skills : HasTest(s)}} :
       UninstallFinish(p, "ok", replayResults)

NextUninstall == StepUninstall(1)

SpecUninstall == Init /\ [][NextUninstall]_vars

\* uninstallSkill calls of one process with every failure the code can
\* meet: a raised error in any step, the restore of the backup included.
\* Every call the process has begun goes on: the calls it makes block only
\* up to their timeouts.
StepUninstallAll(p) ==
  \/ used.ops < MaxUninstallsAll /\ \E skillName \in Skills :
       UninstallBegin(p, skillName, FALSE)
  \/ UninstallLock(p)
  \/ \E throws \in BOOLEAN : UninstallPrepare(p, throws)
  \/ ReplayCollectReset(p)
  \/ ReplayPreload(p)
  \/ \E throws \in BOOLEAN : ReplayApply(p, throws)
  \/ \E installFails \in BOOLEAN : ReplayFinish(p, installFails)
  \/ \E outcome \in UninstallOutcomesAll :
       \E replayResults \in
            UNION {[T -> BOOLEAN] : T \in SUBSET {s \in Skills : HasTest(s)}} :
         UninstallFinish(p, outcome, replayResults)

\* A package goes missing between two calls.
NextUninstallAll ==
  \/ StepUninstallAll(1)
  \/ \E s \in Skills : RemovePackage(s)

SpecUninstallAll ==
  Init /\ [][NextUninstallAll]_vars /\ WF_vars(StepUninstallAll(1))

\* ------------------------------------- the resolution cache called directly
\* The lists given to findResolutionDir, loadResolutions and saveResolution:
\* any names in any order, repeated ones included.
CacheLists == UNION {[1..n -> Skills] : n \in 1..MaxKeyLen}

\* Packages of an installation where B ships a modify file for ext too.
CachePkg == [InitPkg(FALSE) EXCEPT !["B"].modify["ext"] = ModExtOfC]

\* The conflict-marked file a resolution of relPath was made for.
ConflictText(relPath) ==
  IF relPath = "cfg"
  THEN mergeFile(ModCfgOfA, BaseCfg, ModCfgOfBConflicting).content
  ELSE mergeFile(Txt(1, 2), AddExtOfA, ModExtOfC).content

ShippedResolution == ManualResolution
LocalResolution == Txt(5, 0)

PairKinds == {"none", "fresh", "stale", "no_sidecar", "no_hashes"}

\* A resolution directory for [A, B] made on a tree t over base b: per path
\* no pair, a pair whose recorded hashes are those of the files, one whose
\* recorded current hash is of another content, one without the .hash
\* sidecar, or one meta.yaml has no file_hashes entry for.
CacheDir(kinds, meta, resolution, t, b) ==
  [pairs |->
     [x \in {y \in Paths : kinds[y] # "none"} |->
        [preimage |-> ConflictText(x), resolution |-> resolution,
         hash |-> IF kinds[x] = "no_sidecar" THEN None
                  ELSE RerereId(ConflictText(x))]],
   file_hashes |->
     [x \in {y \in Paths : kinds[y] \notin {"none", "no_hashes"}} |->
        [base |-> computeFileHash(b[x]),
         current |-> IF kinds[x] = "stale" THEN computeFileHash(ManualResolution)
                     ELSE computeFileHash(t[x]),
         skill |-> computeFileHash(CachePkg["B"].modify[x])]],
   meta |-> meta, skills |-> <<"A", "B">>]

\* What the maintainer ships under .gemini/resolutions.
ShippedSets(t, b) ==
  {EmptyFn}
  \cup {Put(EmptyFn, <<"A", "B">>, CacheDir(kinds, "complete", ShippedResolution, t, b)) :
          kinds \in [Paths -> PairKinds]}
  \cup {Put(EmptyFn, <<"A", "B">>,
             CacheDir([x \in Paths |-> "fresh"], meta, ShippedResolution, t, b)) :
          meta \in {"missing", "without_input_hashes"}}

\* What earlier saveResolution calls left under .nanoclaw/resolutions.
LocalSets(t, b) ==
  {EmptyFn,
   Put(EmptyFn, <<"A", "B">>,
       CacheDir([x \in Paths |-> "fresh"], "complete", LocalResolution, t, b))}

\* An installation with A applied, with or without ext in the Base
\* Snapshot, and resolution directories under both roots.
InitCache ==
  \E extInBase \in BOOLEAN :
    LET t == InitTree(<<"A">>, FALSE)
        b == [OriginalBase EXCEPT !["ext"] = IF extInBase THEN AddExtOfA ELSE Absent]
    IN \E shipped \in ShippedSets(t, b), local \in LocalSets(t, b) :
         /\ tree = t
         /\ base = b
         /\ stateDoc = [applied_skills |-> <<InitRecord("A", t, FALSE)>>,
                         rebased_at |-> FALSE]
         /\ pkg = CachePkg
         /\ resolutions = [shipped |-> shipped, local |-> local]
         /\ rrCache = EmptyFn
         /\ lock = 0
         /\ backup = EmptyFn
         /\ loc = [p \in Procs |-> IdleLoc]
         /\ hist = [p \in Procs |-> IdleHist]
         /\ lastConflict = [p \in Paths |-> Nothing]
         /\ prevReplay = Nothing
         /\ used = [ops |-> 0, edits |-> 0]
         /\ targets = InitTargets(<<"A">>)

\* A caller looks a resolution directory up.
FindResolutionDir(p, skills) ==
  /\ loc[p].pc = "idle"
  /\ used.ops < MaxCacheCalls
  /\ used' = [used EXCEPT !.ops = @ + 1]
  /\ loc' = [loc EXCEPT ![p] =
       [IdleLoc EXCEPT !.result =
          [kind |-> "find", skills |-> skills,
           value |-> findResolutionDir(skills, resolutions)]]]
  /\ UNCHANGED <<tree, base, stateDoc, pkg, resolutions, rrCache, lock, backup,
                 hist, lastConflict, prevReplay, targets>>

\* A caller loads the resolutions of a list with skill s's directory.
LoadResolutions(p, skills, s) ==
  LET r == loadResolutions(skills, resolutions, tree, base, pkg[s], rrCache)
  IN /\ loc[p].pc = "idle"
     /\ used.ops < MaxCacheCalls
     /\ used' = [used EXCEPT !.ops = @ + 1]
     /\ rrCache' = r.rr
     /\ loc' = [loc EXCEPT ![p] =
          [IdleLoc EXCEPT !.result =
             [kind |-> "load", skills |-> skills, skillDir |-> s,
              value |-> r.loadedAny, rrBefore |-> rrCache]]]
     /\ UNCHANGED <<tree, base, stateDoc, pkg, resolutions, lock, backup,
                    hist, lastConflict, prevReplay, targets>>

\* The file a caller hands to saveResolution for relPath.
SavedFile(relPath) ==
  [relPath |-> relPath, preimage |-> ConflictText(relPath),
   resolution |-> LocalResolution,
   inputHashes |-> [base |-> computeFileHash(base[relPath]),
                    current |-> computeFileHash(tree[relPath]),
                    skill |-> computeFileHash(pkg["B"].modify[relPath])]]

\* The meta argument of a saveResolution call: without file_hashes, or with
\* an entry for cfg taken over from an earlier resolution.
SavedMetas ==
  {[file_hashes |-> EmptyFn],
   [file_hashes |->
      [x \in {"cfg"} |-> [base |-> computeFileHash(BaseCfg),
                          current |-> computeFileHash(ManualResolution),
                          skill |-> computeFileHash(ModCfgOfBClean)]]]}

\* A caller saves a resolution of relPath for a list.
SaveResolutionCall(p, skills, relPath, meta) ==
  /\ loc[p].pc = "idle"
  /\ used.ops < MaxCacheCalls
  /\ used' = [used EXCEPT !.ops = @ + 1]
  /\ resolutions' =
       saveResolution(skills, SavedFile(relPath), meta, resolutions, rrCache)
  /\ loc' = [loc EXCEPT ![p] =
       [IdleLoc EXCEPT !.result =
          [kind |-> "save", skills |-> skills, relPath |-> relPath,
           file |-> SavedFile(relPath), meta |-> meta,
           before |-> resolutions]]]
  /\ UNCHANGED <<tree, base, stateDoc, pkg, rrCache, lock, backup,
                 hist, lastConflict, prevReplay, targets>>

StepCache(p) ==
  \/ \E skills \in CacheLists : FindResolutionDir(p, skills)
  \/ \E skills \in CacheLists, s \in {"B", "C"} : LoadResolutions(p, skills, s)
  \/ \E skills \in CacheLists, relPath \in Paths, meta \in SavedMetas :
       SaveResolutionCall(p, skills, relPath, meta)

NextCache == StepCache(1)

SpecCache == InitCache /\ [][NextCache]_vars

\* ------------------------------------------ the three-way merge on its own
\* The lines of the files merged: plain ones, and a conflict region left
\* by an earlier merge.
MergeLines == {<<v>> : v \in 0..MaxLineValue} \cup {<<1, 0, 2>>}

MergeTexts == {<<l1, l2>> : l1 \in MergeLines, l2 \in MergeLines}

\* An installation whose file cfg is cur in the working tree and b in the
\* Base Snapshot, and for which skill B ships the modify file skill.
InitMerge ==
  \E cur \in MergeTexts, b \in MergeTexts, skill \in MergeTexts :
    /\ tree = [x \in Paths |-> IF x = "cfg" THEN cur ELSE Absent]
    /\ base = [x \in Paths |-> IF x = "cfg" THEN b ELSE Absent]
    /\ stateDoc = [applied_skills |-> <<>>, rebased_at |-> FALSE]
    /\ pkg = [InitPkg(FALSE) EXCEPT !["B"].modify["cfg"] = skill]
    /\ resolutions = [shipped |-> EmptyFn, local |-> EmptyFn]
    /\ rrCache = EmptyFn
    /\ lock = 0
    /\ backup = EmptyFn
    /\ loc = [p \in Procs |-> IdleLoc]
    /\ hist = [p \in Procs |-> IdleHist]
    /\ lastConflict = [p \in Paths |-> Nothing]
    /\ prevReplay = Nothing
    /\ used = [ops |-> 0, edits |-> 0]
    /\ targets = InitTargets(<<>>)

\* replay.ts lines 194-208: mergeFile on a copy of the working file, base
\* and skill file, and the copy written back over the working file.
MergeIntoCurrent(p, relPath, s) ==
  LET result == mergeFile(tree[relPath], base[relPath], pkg[s].modify[relPath])
  IN /\ loc[p].pc = "idle"
     /\ used.ops = 0
     /\ tree[relPath] # Absent /\ base[relPath] # Absent
     /\ pkg[s].modify[relPath] # Absent
     /\ used' = [used EXCEPT !.ops = @ + 1]
     /\ tree' = [tree EXCEPT ![relPath] = result.content]
     /\ loc' = [loc EXCEPT ![p] =
          [IdleLoc EXCEPT !.result =
             [kind |-> "merge", relPath |-> relPath,
              current |-> tree[relPath], base |-> base[relPath],
              skill |-> pkg[s].modify[relPath], clean |-> result.clean]]]
     /\ UNCHANGED <<base, stateDoc, pkg, resolutions, rrCache, lock, backup,
                    hist, lastConflict, prevReplay, targets>>

NextMerge == \E relPath \in Paths, s \in Skills : MergeIntoCurrent(1, relPath, s)

SpecMerge == InitMerge /\ [][NextMerge]_vars

\* ------------------------------------------------- the CI overlap matrix
\* generate-ci-matrix.ts lines 56-68 with the check on the package names
\* left out.
overlapReasonsModifiesOnly(a, b) ==
  LET InB(m) == m \in Range(b.modifies)
      sharedModifies == SelectSeq(a.modifies, InB)
  IN IF sharedModifies # <<>>
     THEN <<[what |-> "shared modifies", shared |-> sharedModifies]>>
     ELSE <<>>

\* generate-ci-matrix.ts lines 54-68: the reasons for which skills a and b
\* overlap, the shared modifies entries first, then the shared packages.
overlapReasons(a, b) ==
  LET InBModifies(m) == m \in Range(b.modifies)
      InBNpm(d) == d \in Range(b.npmDependencies)
      sharedModifies == SelectSeq(a.modifies, InBModifies)
      sharedNpm == SelectSeq(a.npmDependencies, InBNpm)
  IN (IF sharedModifies # <<>>
      THEN <<[what |-> "shared modifies", shared |-> sharedModifies]>>
      ELSE <<>>)
     \o (IF sharedNpm # <<>>
         THEN <<[what |-> "shared npm packages", shared |-> sharedNpm]>>
         ELSE <<>>)

\* generate-ci-matrix.ts lines 49-76: the two loops, at indices i and j,
\* with the entries pushed so far.
RECURSIVE OverlapLoop(_, _, _, _)
OverlapLoop(skills, i, j, entries) ==
  IF i > Len(skills) THEN entries
  ELSE IF j > Len(skills) THEN OverlapLoop(skills, i + 1, i + 2, entries)
  ELSE LET a == skills[i]
           b == skills[j]
           reasons == overlapReasons(a, b)
       IN OverlapLoop(skills, i, j + 1,
            IF reasons # <<>>
            THEN Append(entries, [skills |-> <<a.name, b.name>>,
                                  reason |-> reasons])
            ELSE entries)

computeOverlapMatrix(skills) == OverlapLoop(skills, 1, 2, <<>>)

\* The modifies lists and the package names of the manifests read.
OverlapModifies == {<<>>, <<"cfg">>, <<"ext">>, <<"cfg", "ext">>}

OverlapNpm == {<<>>, <<"dep_b">>, <<"dep_b", "dep_c">>}

\* extractOverlapInfo of up to MaxInfos skill directories: the directory
\* names differ, the manifests are any.
OverlapInfos ==
  [name : Skills, modifies : OverlapModifies, npmDependencies : OverlapNpm]

OverlapInputs ==
  {l \in UNION {[1..n -> OverlapInfos] : n \in 0..MaxInfos} :
     \A i, j \in DOMAIN l : i # j => l[i].name # l[j].name}

\* generateMatrix after readAllManifests and extractOverlapInfo: the
\* overlap infos are at hand, nothing is installed.
InitMatrix ==
  \E skills \in OverlapInputs :
    /\ tree = [x \in Paths |-> Absent]
    /\ base = [x \in Paths |-> Absent]
    /\ stateDoc = [applied_skills |-> <<>>, rebased_at |-> FALSE]
    /\ pkg = InitPkg(FALSE)
    /\ resolutions = [shipped |-> EmptyFn, local |-> EmptyFn]
    /\ rrCache = EmptyFn
    /\ lock = 0
    /\ backup = EmptyFn
    /\ loc = [p \in Procs |->
               IF p = 1
               THEN [IdleLoc EXCEPT !.result =
                       [kind |-> "overlap_infos", skills |-> skills]]
               ELSE IdleLoc]
    /\ hist = [p \in Procs |-> IdleHist]
    /\ lastConflict = [p \in Paths |-> Nothing]
    /\ prevReplay = Nothing
    /\ used = [ops |-> 0, edits |-> 0]
    /\ targets = InitTargets(<<>>)

\* generate-ci-matrix.ts line 119: computeOverlapMatrix on the infos.
ComputeOverlapMatrix(p) ==
  /\ loc[p].pc = "idle"
  /\ loc[p].result.kind = "overlap_infos"
  /\ loc' = [loc EXCEPT ![p].result =
       [kind |-> "matrix", skills |-> loc[p].result.skills,
        entries |-> computeOverlapMatrix(loc[p].result.skills)]]
  /\ UNCHANGED <<tree, base, stateDoc, pkg, resolutions, rrCache, lock,
                 backup, hist, lastConflict, prevReplay, used, targets>>

NextMatrix == ComputeOverlapMatrix(1)

SpecMatrix == InitMatrix /\ [][NextMatrix]_vars

\* ---------------------------------------------------------- properties
\* The result a replaySkills call hands over in the step that ends it.
ReplayOutcome(p) ==
  IF loc'[p].pc = "idle" THEN loc'[p].result ELSE loc'[p].replayResult

\* C1: when a skill of the list leaves unresolved merge conflicts, the
\* replay stops there: exactly the skills up to and including that one have
\* been attempted and have a per-skill entry (the earlier ones successful,
\* that one failed), and the only step left is the return of a failed
\* result that touches neither the working tree nor any later skill.
C1_StopOnConflict ==
  [][\A p \in Procs :
       (loc[p].pc = "r_apply" /\ loc[p].allMergeConflicts # <<>>) =>
         LET l == loc[p]
             k == l.idx - 1
         IN /\ k \in 1..Len(l.skills)
            /\ hist[p].attempted = SubSeq(l.skills, 1, k)
            /\ DOMAIN l.perSkill = {l.skills[j] : j \in 1..k}
            /\ l.perSkill[l.skills[k]] = FALSE
            /\ \A j \in 1..(k - 1) : l.perSkill[l.skills[j]] = TRUE
            /\ (loc'[p] # loc[p] =>
                  /\ tree' = tree
                  /\ base' = base
                  /\ hist'[p].attempted = hist[p].attempted
                  /\ ReplayOutcome(p).success = FALSE
                  /\ ReplayOutcome(p).perSkill = l.perSkill
                  /\ ReplayOutcome(p).mergeConflicts = l.allMergeConflicts)]_vars

\* A direct replay that returned with conflicts before it had tried every
\* skill of its list.
C1_Witness ==
  \E p \in Procs :
    /\ loc[p].result.kind = "replay"
    /\ loc[p].result.error = "conflicts"
    /\ Len(hist[p].attempted) < Len(hist[p].call.skills)

\* C2: an uninstallSkill call that failed after it took the lock (missing
\* package, failed replay, failed test, exception) has returned with the
\* working tree and the State document as they were before the call.
C2_FailureRollsBack ==
  \A p \in Procs :
    (/\ loc[p].result.kind = "uninstall"
     /\ ~loc[p].result.success
     /\ loc[p].result.error \in
          {"missing_package", "replay_failed", "tests_failed", "exception"}) =>
      /\ tree = hist[p].before.tree
      /\ stateDoc = hist[p].before.stateDoc

\* C3: a conflict is auto-resolved from the replay memory only if the
\* triple the resolution directory records for the file equals the hashes
\* of the base, current and skill files of that very merge.
C3_UsedOnlyOnMatchingInputs ==
  \A p \in Procs : \A e \in hist[p].conflictLog :
    e.autoResolved => e.recorded = e.inputs

\* C4: a merge whose (base, current, skill) hashes are the ones a saved
\* resolution of the list records for the file is auto-resolved: it leaves
\* no conflict behind.
C4_SavedResolutionApplied ==
  \A p \in Procs : \A e \in hist[p].conflictLog :
    e.recorded = e.inputs => e.autoResolved

\* C5: the preload of a replay creates or rewrites a replay-memory entry
\* only for a pair of a resolution directory whose meta records a triple for
\* the file, each hash of which equals the hash of the base file, of the
\* working file and of the skill's modify file as they are at that moment.
C5_SeedsOnlyOnFullMatch ==
  [][\A p \in Procs :
       (loc[p].pc = "r_preload" /\ loc'[p].pc = "r_apply") =>
         \A h \in DOMAIN rrCache' :
           (h \notin DOMAIN rrCache \/ rrCache'[h] # rrCache[h]) =>
             /\ loc[p].skills # <<>>
             /\ \E root \in {"shipped", "local"} :
                  \E key \in DOMAIN resolutions[root] :
                    LET dir == resolutions[root][key]
                        skillDir == pkg[loc[p].skills[Len(loc[p].skills)]]
                    IN \E relPath \in DOMAIN dir.pairs \cap DOMAIN dir.file_hashes :
                         /\ dir.pairs[relPath].hash = h
                         /\ base[relPath] # Absent
                         /\ tree[relPath] # Absent
                         /\ skillDir.modify[relPath] # Absent
                         /\ dir.file_hashes[relPath] =
                              [base |-> computeFileHash(base[relPath]),
                               current |-> computeFileHash(tree[relPath]),
                               skill |-> computeFileHash(skillDir.modify[relPath])]]_vars

\* A replay whose preload seeded a pair into the replay memory.
C5_Witness ==
  \E p \in Procs : loc[p].pc = "r_apply" /\ hist[p].seeded # {}

\* C6: no operation changes the working tree, sees another invocation
\* change it, and then changes it again before it returns: the writes of
\* two mutating operations never interleave.
C6_NoInterleavedWrites ==
  \A p \in Procs : hist[p].writing # "interleaved"

\* The step in which process p calls uninstallSkill(skillName).
UninstallCalled(p, skillName) ==
  /\ loc[p].pc = "idle"
  /\ used'.ops = used.ops + 1
  /\ hist'[p].call = [op |-> "uninstall", skillName |-> skillName]

\* C7: once rebased_at is set it stays set, no Applied Skill Record is
\* removed, and every uninstallSkill call, whichever skill it names,
\* returns at once with success false and the "after rebase" error.
C7_RebaseDisablesUninstall ==
  [][stateDoc.rebased_at =>
       /\ stateDoc'.rebased_at
       /\ stateDoc'.applied_skills = stateDoc.applied_skills
       /\ \A p \in Procs : \A skillName \in Skills :
            UninstallCalled(p, skillName) =>
              /\ loc'[p].pc = "idle"
              /\ loc'[p].result = UninstallResult(FALSE, "after_rebase", FALSE)]_vars

\* An uninstall of a skill that is not applied, refused for the rebase.
C7_Witness ==
  \E p \in Procs :
    /\ loc[p].result.kind = "uninstall"
    /\ loc[p].result.error = "after_rebase"
    /\ ~IsApplied(stateDoc, hist[p].call.skillName)

\* C8: an uninstallSkill call made when the system is rebased, the skill
\* is not applied or the skill's record carries a custom patch returns a
\* failure in that very step, with the lock, the backup, the working tree,
\* the Base Snapshot and the State document unchanged.
C8_RejectionMutatesNothing ==
  [][\A p \in Procs : \A skillName \in Skills :
       (/\ UninstallCalled(p, skillName)
        /\ \/ stateDoc.rebased_at
           \/ \A i \in DOMAIN stateDoc.applied_skills :
                stateDoc.applied_skills[i].name # skillName
           \/ \E i \in DOMAIN stateDoc.applied_skills :
                /\ stateDoc.applied_skills[i].name = skillName
                /\ stateDoc.applied_skills[i].custom_patch) =>
         /\ loc'[p].pc = "idle"
         /\ loc'[p].result.kind = "uninstall"
         /\ ~loc'[p].result.success
         /\ UNCHANGED <<lock, backup, tree, base, stateDoc, targets>>]_vars

\* An uninstall refused with the custom patch warning.
C8_Witness ==
  \E p \in Procs :
    /\ loc[p].result.kind = "uninstall"
    /\ loc[p].result.error = "custom_patch_warning"

\* C9: no step of a replay or of an uninstall creates, changes or deletes
\* a file of the Base Snapshot.
C9_BaseSnapshotReadOnly ==
  [][base' = base]_vars

\* Two direct replays in a row of the same list, started from the same
\* Base Snapshot with nothing done in between, in neither of which the
\* filesystem or the merge tool raised an error.
SameReplayTwice ==
  /\ prevReplay.kind = "replay"
  /\ prevReplay.prior.kind = "replay"
  /\ prevReplay.prior.skills = prevReplay.skills
  /\ prevReplay.prior.baseAtStart = prevReplay.baseAtStart
  /\ prevReplay.prior.drift = {}
  /\ prevReplay.result.error # "exception"
  /\ prevReplay.prior.result.error # "exception"

ReplayedAfterDrift ==
  /\ prevReplay.kind = "replay"
  /\ prevReplay.prior.kind = "replay"
  /\ prevReplay.prior.skills = prevReplay.skills
  /\ prevReplay.prior.baseAtStart = prevReplay.baseAtStart
  /\ prevReplay.prior.drift \subseteq allTouchedFiles(prevReplay.skills)
  /\ \A r \in {prevReplay.result, prevReplay.prior.result} :
       r.error \notin {"exception", "missing_dir"}

LastReplayResult(p) ==
  IF loc[p].pc = "u_check" THEN loc[p].replayResult ELSE loc[p].result

Uninstalled(p) ==
  /\ loc[p].result.kind = "uninstall"
  /\ loc[p].result.success

\* Before process p's call every file an Applied Skill Record lists had the
\* content whose hash the record holds.
TreeAsRecorded(p) ==
  LET before == hist[p].before
  IN \A i \in DOMAIN before.stateDoc.applied_skills :
       LET rec == before.stateDoc.applied_skills[i]
       IN \A x \in DOMAIN rec.file_hashes :
            rec.file_hashes[x] = computeFileHash(before.tree[x])

\* C13: with A and B applied, both modifying cfg, a successful uninstall of
\* one of them leaves cfg with the other's change and none of the removed
\* skill's, leaves the other's added files present with the content they
\* had, and removes the additions only the removed skill owns.
C13_OtherSkillPreserved ==
  \A p \in Procs :
    (/\ Uninstalled(p)
     /\ Names(hist[p].before.stateDoc.applied_skills) = <<"A", "B">>
     /\ TreeAsRecorded(p)) =>
      LET S == hist[p].call.skillName
          R == IF S = "A" THEN "B" ELSE "A"
          b == hist[p].before.base
      IN /\ tree["cfg"] = pkg[R].modify["cfg"]
         /\ pkg[S].modify["cfg"] # Absent =>
              \A i \in 1..Len(tree["cfg"]) :
                pkg[S].modify["cfg"][i] # b["cfg"][i] =>
                  tree["cfg"][i] # pkg[S].modify["cfg"][i]
         /\ \A x \in Range(ManifestAdds(R)) :
              tree[x] # Absent /\ tree[x] = hist[p].before.tree[x]
         /\ \A x \in Range(ManifestAdds(S)) \ ManifestPaths(R) : tree[x] = Absent

\* A of [A, B] has been uninstalled: B alone is left.
C13_Witness ==
  \E p \in Procs :
    /\ Uninstalled(p)
    /\ Names(hist[p].before.stateDoc.applied_skills) = <<"A", "B">>
    /\ TreeAsRecorded(p)
    /\ hist[p].call.skillName = "A"
    /\ tree["ext"] = Absent

\* C14: after a successful uninstallSkill(S) the State document lists the
\* records it listed before without S's, in the same order and otherwise
\* unchanged, and the file_hashes of every remaining record map exactly the
\* paths of the record that exist on disk, each to the hash of the file's
\* content at the end of the operation.
C14_StateAfterUninstall ==
  \A p \in Procs :
    Uninstalled(p) =>
      LET old == SelectSeq(hist[p].before.stateDoc.applied_skills,
                           LAMBDA r : r.name # hist[p].call.skillName)
          new == stateDoc.applied_skills
      IN /\ Len(new) = Len(old)
         /\ stateDoc.rebased_at = hist[p].before.stateDoc.rebased_at
         /\ \A i \in DOMAIN new :
              /\ new[i].name = old[i].name
              /\ new[i].custom_patch = old[i].custom_patch
              /\ DOMAIN new[i].file_hashes =
                   {x \in DOMAIN old[i].file_hashes : tree[x] # Absent}
              /\ \A x \in DOMAIN new[i].file_hashes :
                   new[i].file_hashes[x] = computeFileHash(tree[x])

\* A successful uninstall after which a remaining record holds a hash that
\* differs from the one it held before.
C14_Witness ==
  \E p \in Procs :
    /\ Uninstalled(p)
    /\ \E i \in DOMAIN stateDoc.applied_skills :
         \E j \in DOMAIN hist[p].before.stateDoc.applied_skills :
           LET new == stateDoc.applied_skills[i]
               old == hist[p].before.stateDoc.applied_skills[j]
           IN /\ new.name = old.name
              /\ \E x \in DOMAIN new.file_hashes :
                   new.file_hashes[x] # old.file_hashes[x]

\* C15: an uninstallSkill call that returned success ran the test of
\* every remaining skill that declares one, and all of them passed; a call
\* in which one of the tests failed returned success false, with the
\* working tree as the backup held it and the State document, the removed
\* skill's record included, as it was.
C15_TestsGateSuccess ==
  \A p \in Procs :
    loc[p].result.kind = "uninstall" =>
      /\ loc[p].result.success =>
           /\ hist[p].tests # Nothing
           /\ DOMAIN hist[p].tests =
                {s \in Range(Names(hist[p].before.stateDoc.applied_skills)) :
                   s # hist[p].call.skillName /\ HasTest(s)}
           /\ \A s \in DOMAIN hist[p].tests : hist[p].tests[s]
      /\ (hist[p].tests # Nothing /\ \E s \in DOMAIN hist[p].tests : ~hist[p].tests[s]) =>
           /\ ~loc[p].result.success
           /\ tree = hist[p].before.tree
           /\ stateDoc = hist[p].before.stateDoc
           /\ IsApplied(stateDoc, hist[p].call.skillName)

\* An uninstall refused because one of two tests failed, after a replay
\* that had changed the working tree.
C15_Witness ==
  \E p \in Procs :
    /\ loc[p].result.kind = "uninstall"
    /\ loc[p].result.error = "tests_failed"
    /\ \E s, r \in DOMAIN hist[p].tests : hist[p].tests[s] /\ ~hist[p].tests[r]

\* C16: when the package of a remaining applied skill cannot be found, the
\* step of uninstallSkill that follows the lock ends the call: nothing has
\* been reset or replayed (working tree, Base Snapshot and replay memory as
\* they were), the backup is gone, the lock released, the State document
\* unchanged, and the result is a failure naming the first missing skill
\* (or the error raised while the backup was made).
C16_MissingPackageAborts ==
  [][\A p \in Procs :
       (/\ loc[p].pc = "u_backup"
        /\ loc'[p] # loc[p]
        /\ \E i \in DOMAIN loc[p].state.applied_skills :
             /\ loc[p].state.applied_skills[i].name # loc[p].skillName
             /\ ~pkg[loc[p].state.applied_skills[i].name].present) =>
         /\ loc'[p].pc = "idle"
         /\ ~loc'[p].result.success
         /\ UNCHANGED <<tree, base, stateDoc, rrCache, targets>>
         /\ backup' = EmptyFn
         /\ lock' = 0
         /\ \/ loc'[p].result.error = "exception"
            \/ /\ loc'[p].result.error = "missing_package"
               /\ loc'[p].result.names # loc[p].skillName
               /\ IsApplied(loc[p].state, loc'[p].result.names)
               /\ ~pkg[loc'[p].result.names].present]_vars

\* An uninstall that failed for a missing package of a remaining skill.
C16_Witness ==
  \E p \in Procs :
    /\ loc[p].result.kind = "uninstall"
    /\ loc[p].result.error = "missing_package"
    /\ loc[p].result.names \in Skills

\* C17: a custom patch is warned about, not a bar: an uninstallSkill call
\* for an applied skill with a custom patch, on a system that is not
\* rebased, returns the warning only when the caller has not confirmed; a
\* confirmed call goes on with the uninstall.
C17_ConfirmedUninstallProceeds ==
  \A p \in Procs :
    (/\ loc[p].result.kind = "uninstall"
     /\ loc[p].result.error = "custom_patch_warning") =>
      ~hist[p].confirmed

\* C18: once every applied skill has been uninstalled successfully, one
\* call at a time, applied_skills is empty and every recorded path holds the
\* content the Base Snapshot had at initialisation, or is absent when that
\* snapshot lacked it. (Every path of the model is recorded by skill A,
\* which every non-empty stack holds.)
C18_UninstallAllRestoresBase ==
  \A p \in Procs :
    (/\ loc[p].result.kind = "uninstall"
     /\ loc[p].result.success
     /\ stateDoc.applied_skills = <<>>) =>
      \A x \in Paths : tree[x] = OriginalBase[x]

\* C19: the batch of structured operations and the install command run only
\* at the end of a replay that left no conflict and met no failure: while a
\* replay is in its collect, preload or loop steps, and whenever a replay
\* has returned success false, package.json, .env.example and
\* docker-compose.yml are as they were before the call and the install
\* command has not run.
C19_StructuredOpsOnlyAfterCleanReplay ==
  \A p \in Procs :
    LET r == LastReplayResult(p)
    IN (\/ loc[p].pc \in {"r_collect", "r_preload", "r_apply"}
        \/ (r.kind = "replay" /\ ~r.success)) =>
         /\ targets = hist[p].before.targets
         /\ hist[p].install = "none"

\* A replay has returned a conflict after a skill whose package dependency
\* package.json does not hold yet was applied without conflict.
C19_Witness ==
  \E p \in Procs :
    /\ loc[p].result.kind = "replay"
    /\ loc[p].result.error = "conflicts"
    /\ \E s \in DOMAIN loc[p].result.perSkill :
         /\ loc[p].result.perSkill[s]
         /\ ManifestStructured(s).npm_dependencies \ targets.packageJson # {}

\* C20: a replay whose install command failed has still returned success
\* true, with a successful per-skill entry for every skill of the list, and
\* the dependencies of the batch are in package.json.
C20_InstallFailureNotFatal ==
  \A p \in Procs :
    LET r == LastReplayResult(p)
        skills == IF hist[p].call.op = "replay" THEN hist[p].call.skills
                  ELSE loc[p].skills
    IN (r.kind = "replay" /\ hist[p].install = "failed") =>
         /\ r.success
         /\ DOMAIN r.perSkill = Range(skills)
         /\ \A s \in Range(skills) :
              /\ r.perSkill[s]
              /\ ManifestStructured(s).npm_dependencies \subseteq targets.packageJson

\* A replay of two skills has returned after its install command failed.
C20_Witness ==
  \E p \in Procs :
    /\ loc[p].result.kind = "replay"
    /\ hist[p].install = "failed"
    /\ Len(hist[p].call.skills) = 2

\* C21: an uninstallSkill call never ends by raising an exception to its
\* caller: every failure, an error met while the backup is restored and
\* cleared included, comes back as a result with success false.
C21_FailuresAreStructuredResults ==
  \A p \in Procs :
    loc[p].result.kind = "uninstall" => ~loc[p].result.threw

\* C22: an uninstallSkill call works on the State document it read at its
\* start and writes the document only in the step that ends it with
\* success: a step of a running call that changes the State document
\* returns success true, so no failing call has written it.
C22_StateWrittenOnlyOnSuccess ==
  [][\A p \in Procs :
       (loc[p].op = "uninstall" /\ stateDoc' # stateDoc) =>
         /\ loc'[p].pc = "idle"
         /\ loc'[p].result.kind = "uninstall"
         /\ loc'[p].result.success]_vars

\* C23: findResolutionDir returns the shipped directory of the key when
\* there is one, whether or not a local one exists too, the local directory
\* only when no shipped one exists, and nothing when neither exists; and
\* when both exist loadResolutions seeds the replay memory with resolutions
\* of the shipped directory only.
C23_ShippedTakesPriority ==
  \A p \in Procs :
    LET r == loc[p].result
        key == resolutionKey(r.skills)
    IN /\ r.kind = "find" =>
            IF key \in DOMAIN resolutions.shipped
            THEN /\ r.value.found /\ r.value.root = "shipped"
                 /\ r.value.dir = resolutions.shipped[key]
            ELSE IF key \in DOMAIN resolutions.local
            THEN /\ r.value.found /\ r.value.root = "local"
                 /\ r.value.dir = resolutions.local[key]
            ELSE ~r.value.found
       /\ (r.kind = "load" /\ key \in DOMAIN resolutions.shipped) =>
            \A h \in DOMAIN rrCache :
              (h \notin DOMAIN r.rrBefore \/ rrCache[h] # r.rrBefore[h]) =>
                \E x \in DOMAIN resolutions.shipped[key].pairs :
                  /\ h = resolutions.shipped[key].pairs[x].hash
                  /\ rrCache[h].postimage = resolutions.shipped[key].pairs[x].resolution

\* A lookup answered with the shipped directory while a local directory
\* with another resolution exists for the same key.
C23_Witness ==
  \E p \in Procs :
    /\ loc[p].result.kind = "find"
    /\ loc[p].result.value.root = "shipped"
    /\ resolutionKey(loc[p].result.skills) \in DOMAIN resolutions.local
    /\ resolutions.local[resolutionKey(loc[p].result.skills)] # loc[p].result.value.dir

\* Two lists hold the same names the same number of times.
IsPermutation(l1, l2) ==
  /\ Len(l1) = Len(l2)
  /\ \A s \in Skills :
       Cardinality({i \in DOMAIN l1 : l1[i] = s}) =
       Cardinality({i \in DOMAIN l2 : l2[i] = s})

\* C24: the order of the names does not matter to the resolution cache:
\* what findResolutionDir has returned for a list it returns for every
\* permutation of the list, and after saveResolution has saved a file for a
\* list, the save under any permutation would have written the same
\* directory and a lookup under any permutation finds a directory that
\* holds the saved pair.
C24_KeyIgnoresOrder ==
  \A p \in Procs :
    LET r == loc[p].result
    IN /\ r.kind = "find" =>
            \A l2 \in CacheLists :
              IsPermutation(r.skills, l2) =>
                findResolutionDir(l2, resolutions) = r.value
       /\ r.kind = "save" =>
            \A l2 \in CacheLists :
              IsPermutation(r.skills, l2) =>
                /\ saveResolution(l2, r.file, r.meta, r.before, rrCache)
                     = resolutions
                /\ findResolutionDir(l2, resolutions).found
                /\ findResolutionDir(l2, resolutions).key \in DOMAIN resolutions.local
                /\ r.relPath \in DOMAIN
                     resolutions.local[findResolutionDir(l2, resolutions).key].pairs

\* A resolution saved for [B, A] on an installation without directories
\* for the pair is found by the lookup for [A, B].
C24_Witness ==
  \E p \in Procs :
    /\ loc[p].result.kind = "save"
    /\ loc[p].result.skills = <<"B", "A">>
    /\ loc[p].result.before = [shipped |-> EmptyFn, local |-> EmptyFn]
    /\ findResolutionDir(<<"A", "B">>, resolutions).root = "local"

\* The pair of relPath in directory dir is fit to be seeded: meta.yaml
\* records hashes for it, the base, working and skill files exist and have
\* those hashes, and the pair has its sidecar token.
PairIsFit(dir, relPath, s) ==
  /\ relPath \in DOMAIN dir.file_hashes
  /\ base[relPath] # Absent /\ tree[relPath] # Absent
  /\ pkg[s].modify[relPath] # Absent
  /\ dir.file_hashes[relPath] =
       [base |-> computeFileHash(base[relPath]),
        current |-> computeFileHash(tree[relPath]),
        skill |-> computeFileHash(pkg[s].modify[relPath])]
  /\ dir.pairs[relPath].hash # None

\* C28: loadResolutions decides each pair of the directory on its own: after
\* a load from a directory with a complete meta.yaml every pair that is fit
\* is in the replay memory under its token, whatever the other pairs are,
\* a pair that is stale, lacks an input file, a sidecar or recorded hashes
\* has written nothing, and the call has returned true exactly when some
\* pair was seeded.
C28_PairsLoadIndependently ==
  \A p \in Procs :
    LET r == loc[p].result
        f == findResolutionDir(r.skills, resolutions)
    IN (r.kind = "load" /\ f.found /\ f.dir.meta = "complete") =>
         /\ \A x \in DOMAIN f.dir.pairs :
              IF PairIsFit(f.dir, x, r.skillDir)
              THEN /\ f.dir.pairs[x].hash \in DOMAIN rrCache
                   /\ rrCache[f.dir.pairs[x].hash] =
                        [preimage |-> f.dir.pairs[x].preimage,
                         postimage |-> f.dir.pairs[x].resolution]
              ELSE \A h \in DOMAIN rrCache :
                     h = RerereId(f.dir.pairs[x].preimage) =>
                       h \in DOMAIN r.rrBefore /\ rrCache[h] = r.rrBefore[h]
         /\ r.value <=> \E x \in DOMAIN f.dir.pairs : PairIsFit(f.dir, x, r.skillDir)

\* A load from a directory of two pairs, the first stale, the second fit,
\* has seeded the second and returned true.
C28_Witness ==
  \E p \in Procs :
    LET r == loc[p].result
        f == findResolutionDir(r.skills, resolutions)
    IN /\ r.kind = "load" /\ r.value
       /\ f.found
       /\ DOMAIN f.dir.pairs = Paths
       /\ ~PairIsFit(f.dir, "cfg", r.skillDir)
       /\ PairIsFit(f.dir, "ext", r.skillDir)
       /\ r.rrBefore = EmptyFn
       /\ DOMAIN rrCache = {f.dir.pairs["ext"].hash}

\* C25: a direct replaySkills call whose list holds a skill without an
\* entry in skillDirs has returned success false, its error naming the
\* first such skill of the list and perSkill holding a failed entry for it
\* (and no other entry), no skill attempted, and the working tree, the
\* Base Snapshot and the structured targets as they were before the call.
C25_MissingSkillDirFailsFirst ==
  \A p \in Procs :
    LET r == loc[p].result
        skills == hist[p].call.skills
        missing == {i \in DOMAIN skills : ~pkg[skills[i]].present}
    IN (r.kind = "replay" /\ missing # {}) =>
         /\ ~r.success
         /\ r.error = "missing_dir"
         /\ \E i \in missing :
              /\ \A j \in missing : i <= j
              /\ r.names = skills[i]
              /\ r.perSkill = [s \in {skills[i]} |-> FALSE]
         /\ tree = hist[p].before.tree
         /\ base = hist[p].before.base
         /\ targets = hist[p].before.targets
         /\ hist[p].attempted = <<>>

\* A replay of two skills has returned for the missing directory of the
\* second while the working tree differs from the base at a path of the
\* first.
C25_Witness ==
  \E p \in Procs :
    /\ loc[p].result.kind = "replay"
    /\ loc[p].result.error = "missing_dir"
    /\ Len(hist[p].call.skills) = 2
    /\ loc[p].result.names = hist[p].call.skills[2]
    /\ \E x \in Range(ManifestModifies(hist[p].call.skills[1])) : tree[x] # base[x]

\* C26: merging (current, base, skill) into current when base and current
\* both equal skill is clean and leaves current as it was.
C26_MergeIdempotent ==
  \A p \in Procs :
    LET r == loc[p].result
    IN (r.kind = "merge" /\ r.current = r.skill /\ r.base = r.skill) =>
         /\ r.clean
         /\ tree[r.relPath] = r.current

\* Three equal files that hold a conflict region of an earlier merge have
\* been merged.
C26_Witness ==
  \E p \in Procs :
    /\ loc[p].result.kind = "merge"
    /\ loc[p].result.current = loc[p].result.skill
    /\ loc[p].result.base = loc[p].result.skill
    /\ HasMarkers(loc[p].result.current)

\* The manifests of a and b share a modifies path or a package name.
SharesPathOrPackage(a, b) ==
  \/ Range(a.modifies) \cap Range(b.modifies) # {}
  \/ Range(a.npmDependencies) \cap Range(b.npmDependencies) # {}

\* The pairs of positions i < j of the list whose skills overlap.
OverlappingPairs(skills) ==
  {ij \in (DOMAIN skills) \X (DOMAIN skills) :
     ij[1] < ij[2] /\ SharesPathOrPackage(skills[ij[1]], skills[ij[2]])}

PairBefore(x, y) == x[1] < y[1] \/ (x[1] = y[1] /\ x[2] < y[2])

\* C27: the overlap matrix holds exactly one entry for each pair of skills
\* whose modifies lists share a path or whose package lists share a name,
\* and none for any other pair; the entries come in the order of the
\* pairs' positions (i < j, outer index first), each names its two skills
\* in input order; a list of zero or one skill gives an empty matrix.
C27_OverlapMatrixIsThePairs ==
  \A p \in Procs :
    loc[p].result.kind = "matrix" =>
      LET skills == loc[p].result.skills
          entries == loc[p].result.entries
          pairs == OverlappingPairs(skills)
      IN /\ Len(entries) = Cardinality(pairs)
         /\ \E f \in [DOMAIN entries -> pairs] :
              /\ \A k, m \in DOMAIN entries : k < m => PairBefore(f[k], f[m])
              /\ \A k \in DOMAIN entries :
                   entries[k].skills =
                     <<skills[f[k][1]].name, skills[f[k][2]].name>>
         /\ (Len(skills) <= 1 => entries = <<>>)

\* Three skills of which the first and second share only a package, the
\* first and third only a path, and the second and third nothing.
C27_Witness ==
  /\ loc[1].result.kind = "matrix"
  /\ Len(loc[1].result.skills) = 3
  /\ Len(loc[1].result.entries) = 2
  /\ loc[1].result.entries[1].skills =
       <<loc[1].result.skills[1].name, loc[1].result.skills[2].name>>
  /\ loc[1].result.entries[1].reason[1].what = "shared npm packages"
  /\ loc[1].result.entries[2].skills =
       <<loc[1].result.skills[1].name, loc[1].result.skills[3].name>>
  /\ loc[1].result.entries[2].reason[1].what = "shared modifies"

\* The place of a phase in the order of replay.ts.
PhaseRank(phase) ==
  CASE phase = "collect" -> 1
    [] phase = "reset" -> 2
    [] phase = "preload" -> 3
    [] phase = "apply" -> 4
    [] phase = "aggregate" -> 5

\* The replaySkills result of process p once its call has ended.
EndedReplay(p) ==
  IF loc[p].result.kind = "replay" THEN loc[p].result
  ELSE IF loc[p].op = "uninstall" THEN loc[p].replayResult
  ELSE Nothing

\* The list a replaySkills call of process p runs on.
ReplayedList(p) ==
  IF hist[p].call.op = "replay" THEN hist[p].call.skills ELSE loc[p].skills

\* Process p runs replaySkills, directly or within uninstallSkill, or its
\* direct call has ended.
ReplayObserved(p) ==
  /\ hist[p].call # Nothing
  /\ hist[p].call.op = "replay" \/ loc[p].op = "uninstall"

\* C29: a replaySkills run goes through Collect, Reset, Preload, Apply
\* (the skills in list order) and Aggregate in that order, each of the
\* first three and the last at most once and none left out before a later
\* one (Aggregate follows Preload directly only for the empty list); the
\* preload is handed the whole list and the last skill's directory, with
\* every collected path reset and no skill applied yet; Aggregate is
\* reached only with every skill applied and no conflict; and the run ends
\* as exactly one of Success, Failed(conflicts) and Failed(error).
C29_PhasesInFixedOrder ==
  \A p \in Procs :
    LET ph == hist[p].phases
        skills == ReplayedList(p)
        applied == {i \in DOMAIN ph : ph[i] = "apply"}
        res == EndedReplay(p)
        success == res.success /\ res.error = "none" /\ res.mergeConflicts = <<>>
        failedConflicts ==
          ~res.success /\ res.error = "conflicts" /\ res.mergeConflicts # <<>>
        failedError ==
          /\ ~res.success /\ res.mergeConflicts = <<>>
          /\ res.error \in {"missing_dir", "exception"}
    IN ReplayObserved(p) =>
       /\ ph # <<>> => ph[1] = "collect"
       /\ \A i \in DOMAIN ph : i > 1 =>
            \/ PhaseRank(ph[i]) = PhaseRank(ph[i - 1]) + 1
            \/ ph[i] = "apply" /\ ph[i - 1] = "apply"
            \/ ph[i] = "aggregate" /\ ph[i - 1] = "preload" /\ skills = <<>>
       /\ Cardinality(applied) = Len(hist[p].attempted)
       /\ Len(hist[p].attempted) <= Len(skills)
       /\ hist[p].attempted = SubSeq(skills, 1, Len(hist[p].attempted))
       /\ hist[p].preload # Nothing =>
            /\ hist[p].preload.skills = skills
            /\ hist[p].preload.skillDir =
                 (IF skills = <<>> THEN "none" ELSE skills[Len(skills)])
            /\ hist[p].preload.reset
       /\ (\E i \in DOMAIN ph : ph[i] = "preload") <=>
            hist[p].preload # Nothing
       /\ (\E i \in DOMAIN ph : ph[i] = "aggregate") =>
            /\ hist[p].attempted = skills
            /\ res.kind = "replay"
            /\ \A j \in DOMAIN skills : res.perSkill[skills[j]] = TRUE
       /\ res.kind = "replay" =>
            /\ ph # <<>>
            /\ (success /\ ~failedConflicts /\ ~failedError)
                 \/ (~success /\ failedConflicts /\ ~failedError)
                 \/ (~success /\ ~failedConflicts /\ failedError)
            /\ success <=> ph[Len(ph)] = "aggregate"
            /\ failedConflicts =>
                 ph[Len(ph)] = "apply" /\ res.perSkill[hist[p].attempted[Len(hist[p].attempted)]] = FALSE
            /\ res.error = "missing_dir" <=> ph = <<"collect">>

\* A run of two skills that went through all five phases and succeeded,
\* the preload having been handed the second skill's directory.
C29_Witness ==
  /\ loc[1].result.kind = "replay"
  /\ loc[1].result.success
  /\ hist[1].phases = <<"collect", "reset", "preload", "apply", "apply", "aggregate">>
  /\ hist[1].preload.skillDir = hist[1].call.skills[2]
  /\ hist[1].call.skills[1] # hist[1].call.skills[2]

\* The modifies entries of skill s whose file the package does not hold.
MissingModifyFiles(s) ==
  {x \in Range(ManifestModifies(s)) : pkg[s].modify[x] = Absent}

\* C30: when the skill a replay applied last lists a file in modifies that
\* its package's modify directory does not hold, the replay fails with a
\* missing-input error that names the file, not with a merge conflict.
C30_MissingModifyFileIsMissingDependency ==
  \A p \in Procs :
    LET res == EndedReplay(p)
        att == hist[p].attempted
        last == att[Len(att)]
    IN (/\ ReplayObserved(p)
        /\ res.kind = "replay"
        /\ att # <<>>
        /\ res.error # "exception"
        /\ MissingModifyFiles(last) # {}) =>
         /\ ~res.success
         /\ res.error = "missing_input"
         /\ res.names \in MissingModifyFiles(last)

\* C31: after a successful uninstallSkill(S), a path of S's record that no
\* remaining record lists holds its Base Snapshot content (is absent when
\* the snapshot lacks it), a path that a remaining record lists has been
\* rebuilt by a replay of exactly the remaining skills after a reset, and
\* no file that S added still holds the content S added.
C31_UninstalledSkillLeavesNoContent ==
  \A p \in Procs :
    (/\ loc[p].result.kind = "uninstall"
     /\ loc[p].result.success) =>
      LET S == hist[p].call.skillName
          before == hist[p].before
          removedSkillFiles == DOMAIN Entry(before.stateDoc, S).file_hashes
          remainingSkillFiles ==
            FilesOf(before.stateDoc.applied_skills, Skills \ {S})
      IN \A x \in removedSkillFiles :
           /\ x \notin remainingSkillFiles => tree[x] = before.base[x]
           /\ x \in remainingSkillFiles =>
                /\ hist[p].attempted = remainingSkills(before.stateDoc, S)
                /\ \E i \in DOMAIN hist[p].phases : hist[p].phases[i] = "reset"
           /\ x \in Range(ManifestAdds(S)) => tree[x] # pkg[S].add[x]

\* C32: after saveResolution(skills, files, meta) the directory under the
\* key of the list holds a meta document whose skills are the sorted list
\* and whose file_hashes map the saved file's path to the inputHashes given
\* for that file, and a preimage and a resolution for the saved file.
C32_SavedMetaRecordsInputHashes ==
  \A p \in Procs :
    loc[p].result.kind = "save" =>
      LET r == loc[p].result
          key == SortNames(r.skills)
      IN /\ key \in DOMAIN resolutions.local
         /\ resolutions.local[key].meta = "complete"
         /\ resolutions.local[key].skills = SortNames(r.skills)
         /\ r.relPath \in DOMAIN resolutions.local[key].pairs
         /\ resolutions.local[key].pairs[r.relPath].preimage = r.file.preimage
         /\ resolutions.local[key].pairs[r.relPath].resolution = r.file.resolution
         /\ r.relPath \in DOMAIN resolutions.local[key].file_hashes
         /\ resolutions.local[key].file_hashes[r.relPath] = r.file.inputHashes

\* The places of the list whose skill declares x in adds with no later
\* skill of the list modifying x.
AddersKept(skills, x) ==
  {i \in DOMAIN skills :
     /\ x \in Range(ManifestAdds(skills[i]))
     /\ \A j \in DOMAIN skills : j > i => x \notin Range(ManifestModifies(skills[j]))}

C34_FirstModifierMergesCleanly ==
  \A p \in Procs :
    /\ (loc[p].pc = "r_apply" /\ loc[p].idx > 1) =>
         LET l == loc[p]
             i == l.idx - 1
             s == l.skills[i]
         IN \A x \in Range(ManifestModifies(s)) :
              (/\ hist[p].before.base[x] # Absent
               /\ \A j \in 1..(i - 1) : x \notin ManifestPaths(l.skills[j])) =>
                /\ tree[x] = pkg[s].modify[x]
                /\ x \notin Range(l.allMergeConflicts)
    /\ (/\ ReplayObserved(p)
        /\ EndedReplay(p).kind = "replay"
        /\ Len(ReplayedList(p)) = 1) =>
         \A x \in Range(EndedReplay(p).mergeConflicts) :
           hist[p].before.base[x] = Absent

\* C35: when a replay is about to preload, every collected path that exists
\* in the working tree holds the content of its Base Snapshot file; and the
\* preload writes a replay-memory entry only for a pair of the list's
\* resolution directory whose recorded current hash is the hash of the base
\* file.
C35_PreloadSeesResetTree ==
  [][\A p \in Procs :
       loc[p].pc = "r_preload" =>
         /\ \A x \in allTouchedFiles(loc[p].skills) :
              tree[x] = Absent \/ tree[x] = base[x]
         /\ loc'[p].pc = "r_apply" =>
              \A h \in DOMAIN rrCache' :
                (h \notin DOMAIN rrCache \/ rrCache'[h] # rrCache[h]) =>
                  LET f == findResolutionDir(loc[p].skills, resolutions)
                  IN /\ f.found
                     /\ \E x \in DOMAIN f.dir.pairs \cap DOMAIN f.dir.file_hashes :
                          /\ f.dir.pairs[x].hash = h
                          /\ base[x] # Absent
                          /\ f.dir.file_hashes[x].current = computeFileHash(base[x])]_vars

\* A preload has seeded a pair for a file that, before the replay reset it,
\* differed from its base version.
C35_Witness ==
  \E p \in Procs :
    /\ loc[p].pc = "r_apply"
    /\ loc[p].idx = 1
    /\ hist[p].seeded # {}
    /\ \E x \in allTouchedFiles(loc[p].skills) :
         /\ hist[p].before.tree[x] # base[x]
         /\ LET f == findResolutionDir(loc[p].skills, resolutions)
            IN /\ f.found
               /\ x \in DOMAIN f.dir.pairs
               /\ f.dir.pairs[x].hash \in hist[p].seeded

\* C36: when two uninstallSkill invocations of different processes, naming
\* different skills, have both returned success, the State document holds a
\* record of neither skill.
C36_ConcurrentUninstallsBothTakeEffect ==
  \A p, q \in Procs :
    (/\ p # q
     /\ loc[p].result.kind = "uninstall" /\ loc[p].result.success
     /\ loc[q].result.kind = "uninstall" /\ loc[q].result.success
     /\ hist[p].call.skillName # hist[q].call.skillName) =>
      /\ ~IsApplied(stateDoc, hist[p].call.skillName)
      /\ ~IsApplied(stateDoc, hist[q].call.skillName)

\* C37: an uninstallSkill invocation that holds the lock goes on to its
\* end and no longer holds the lock once it has ended, whichever way it
\* ends: with success, a missing package, a failed replay, a failed test or
\* a raised error, one raised while the backup is restored included.
C37_LockReleasedOnEveryPath ==
  /\ [](\A p \in Procs : loc[p].pc = "idle" => lock # p)
  /\ \A p \in Procs : (lock = p) ~> (loc[p].pc = "idle" /\ lock # p)

\* An invocation has ended with the error raised by restoreBackup, its
\* backup still on disk, and the lock is free.
C37_Witness ==
  /\ loc[1].pc = "idle"
  /\ loc[1].result.kind = "uninstall"
  /\ loc[1].result.error = "restore_failed"
  /\ loc[1].result.threw
  /\ backup # EmptyFn
  /\ lock = 0

\* The backup an uninstallSkill call of process p works with: the one its
\* step creates when it is at the backup step, the one on disk after that.
BackupOf(p) ==
  IF loc[p].pc = "u_backup"
  THEN createBackup(FilesOf(loc[p].state.applied_skills, Skills), tree)
  ELSE backup

PastLock(p) ==
  loc[p].op = "uninstall" /\ loc[p].pc \notin {"idle", "u_lock"}

\* C38: in uninstallSkill the backup exists before the working tree is
\* first written and holds every file the call changes as it was at the
\* start; the backup is discarded only when the outcome is final, on success
\* with the new State document written and on failure with the backup put
\* back; and a call that returns a result leaves no backup behind.
C38_BackupBracketsTheWrites ==
  [][\A p \in Procs : (PastLock(p) /\ loc'[p] # loc[p]) =>
       LET bk == BackupOf(p)
           ends == loc'[p].pc = "idle"
           res == loc'[p].result
       IN /\ \A x \in Paths : tree'[x] # tree[x] =>
               /\ x \in DOMAIN bk
               /\ bk[x] = hist[p].before.tree[x]
               /\ (~ends => backup' = bk)
          /\ (bk # EmptyFn /\ backup' = EmptyFn) =>
               /\ ends
               /\ res.success =>
                    /\ ~IsApplied(stateDoc', loc[p].skillName)
                    /\ stateDoc' # stateDoc
               /\ ~res.success => \A x \in DOMAIN bk : tree'[x] = bk[x]
          /\ (ends /\ ~res.threw) => backup' = EmptyFn
          /\ ~ends => backup' = bk]_vars

\* A call has failed its tests after the replay wrote the working tree: the
\* tree is back as it was at the start and the backup is gone.
C38_Witness ==
  /\ loc[1].pc = "idle"
  /\ loc[1].result.kind = "uninstall"
  /\ loc[1].result.error = "tests_failed"
  /\ hist[1].writing = "wrote"
  /\ hist[1].before # Nothing
  /\ tree = hist[1].before.tree
  /\ backup = EmptyFn

\* The skills of a result's perSkill that have success = false.
FailedEntries(res) == {s \in DOMAIN res.perSkill : ~res.perSkill[s]}

\* C39: in every result of replaySkills, success holds exactly when every
\* skill of the list has a perSkill entry with success = true; at most one
\* entry has success = false; no skill that stands after the failed one in
\* the list has an entry; and mergeConflicts is there exactly in the
\* result returned for conflicts, is then not empty and lists only paths
\* of the modifies of the one failed skill.
C39_ResultShape ==
  \A p \in Procs :
    (ReplayObserved(p) /\ EndedReplay(p).kind = "replay") =>
      LET res == EndedReplay(p)
          skills == ReplayedList(p)
      IN /\ DOMAIN res.perSkill \subseteq Range(skills)
         /\ res.success <=>
              \A i \in DOMAIN skills :
                skills[i] \in DOMAIN res.perSkill /\ res.perSkill[skills[i]]
         /\ Cardinality(FailedEntries(res)) <= 1
         /\ \A i, j \in DOMAIN skills :
              (i < j /\ skills[i] \in FailedEntries(res)) =>
                skills[j] \notin DOMAIN res.perSkill
         /\ (res.error = "conflicts") <=> (res.mergeConflicts # <<>>)
         /\ res.mergeConflicts # <<>> =>
              \E s \in FailedEntries(res) :
                Range(res.mergeConflicts) \subseteq Range(ManifestModifies(s))

\* A replay of the whole stack has stopped at the second skill for a
\* conflict: the first has succeeded, the third has no entry.
C39_Witness ==
  /\ ReplayObserved(1)
  /\ EndedReplay(1).kind = "replay"
  /\ ReplayedList(1) = <<"A", "B", "C">>
  /\ ~EndedReplay(1).success
  /\ EndedReplay(1).perSkill = [s \in {"A", "B"} |-> s = "A"]
  /\ EndedReplay(1).mergeConflicts = <<"cfg">>

=============================================================================
